---- MODULE Spec2Model ----
(***************************************************************************)
(* Job tracking application (bouw): the sessions store, its derived views   *)
(* (per-house grouping, totals, completion order, fases) and the fase       *)
(* report view, against the hosted Record Store.                            *)
(*                                                                          *)
(* A nullable value is modelled as a sequence: <<>> is null, <<v>> is v.    *)
(* Timestamps (created_at, deleted_at) are positive integers; the ISO       *)
(* strings of the program have one fixed format, so that their string       *)
(* order is the order of the instants.                                      *)
(***************************************************************************)
EXTENDS Integers, Sequences, FiniteSets, TLC

VARIABLES
    job_sessions,   \* Record Store: the rows of table job_sessions
    clock,          \* Record Store: now()
    sessions,       \* sessions store: ref<JobSession[]>
    loading,        \* sessions store: ref(false)
    error,          \* sessions store: ref<string | null>
    inflight,       \* sessions store: the awaited Record Store calls, per call slot
    calls,          \* store actions called so far
    calc,           \* the last value a derived view or query returned
    phase_houses,   \* Record Store: the rows of table phase_houses
    phaseHouses,    \* sessions store: the loaded house-to-phase mapping
    allWorkers,     \* workers store: ref<Worker[]>
    requests,       \* fase report: the other awaited calls of onMounted
    view,           \* fase report view: its refs and the position of onMounted
    maxHouses,      \* sessions store: ref(200), the highest house number
    workers_rows,   \* Record Store: the rows of table workers
    workers,        \* workers store: ref<Worker[]>, the active workers
    workersError,   \* workers store: ref<string | null>
    dash,           \* dashboard: the selected house, its photos, the fetches awaited
    upload,         \* photos store: the position of uploadPhotos, storage and rows
    klus            \* job form view: its refs and the position of handleSubmit

reportVars == <<phase_houses, phaseHouses, allWorkers, requests, view>>

viewVars == <<dash, upload, klus>>

vars == <<viewVars, workers, workers_rows, workersError, maxHouses, calls, job_sessions, clock, sessions, loading, error, inflight, calc, reportVars>>

----------------------------------------------------------------------------
(* Bounds of the model *)

DefaultMaxHouses == 200
MaxId == 2          \* record ids the Record Store can hand out
MaxHouse == 1       \* house numbers used by the store specification
MaxSlot == 2        \* store actions that can be in flight together
MaxCalls == 4       \* store actions called in one behaviour
MaxMin == 3         \* the minutes value entered in forms
MaxLen == 3         \* sessions in a list of the views specification
MaxViewHouse == 2   \* house numbers in those lists
MaxTime == 2        \* created_at values in those lists
MaxTaskLen == 2     \* sessions in a list that varies the task minutes
MaxBig == 101       \* houses in a list with one session per house
MaxFase == 2        \* fase numbers asked for
MaxRow == 2         \* rows of job_sessions in the report specification
MaxBatch == 2       \* rows listed in one INSERT statement
MaxWorker == 3      \* rows of table workers
MaxMinutes == 120   \* minutes of one session in the lists that vary the total

Ids == 1..MaxId
Houses == 1..MaxHouse
Slots == 1..MaxSlot

Null == <<>>
Some(v) == <<v>>

\* value || 0 on a nullable number
OrZero(x) == IF x = Null THEN 0 ELSE x[1]

----------------------------------------------------------------------------
(* JobSession rows *)

\* The row the tests build (createSession helper) before overrides
BlankSession ==
    [ id |-> 0,
      house_number |-> 1,
      worker_id |-> Null,
      binnen_opruimen_min |-> Null,
      buiten_balkon_min |-> Null,
      zonnescherm_verwijderd_min |-> Null,
      glasbreuk_min |-> Null,
      diversen_min |-> Null,
      glasbreuk_aantal |-> Null,
      zonnescherm_terugplaatsen |-> Null,
      bewoner_naam |-> Null,
      binnen_opruimen_opmerkingen |-> Null,
      buiten_balkon_opmerkingen |-> Null,
      zonnescherm_opmerkingen |-> Null,
      glasbreuk_opmerkingen |-> Null,
      diversen_opmerkingen |-> Null,
      created_at |-> Some(1),
      deleted_at |-> Null ]

\* row with the fields of a partial record written over it
Merge(row, updates) ==
    [f \in DOMAIN row |-> IF f \in DOMAIN updates THEN updates[f] ELSE row[f]]

\* reduce((sum, x) => sum + x, 0) over s[lo..hi], the range taken in halves
RECURSIVE SumRange(_, _, _)
SumRange(s, lo, hi) ==
    IF lo > hi THEN 0
    ELSE IF lo = hi THEN s[lo]
    ELSE LET mid == (lo + hi) \div 2
         IN SumRange(s, lo, mid) + SumRange(s, mid + 1, hi)

SeqSum(s) == SumRange(s, 1, Len(s))

\* Array.prototype.filter is SelectSeq; Array.prototype.map is written
\* [i \in 1..Len(s) |-> F(s[i])]

Range(s) == {s[i] : i \in 1..Len(s)}

----------------------------------------------------------------------------
(* sessions store: derived views *)

\* computed sessionsByHouse: the houses that are keys of the grouping, each
\* with its sessions in list order
sessionsByHouse(list) ==
    [h \in {list[i].house_number : i \in 1..Len(list)} |->
        SelectSeq(list, LAMBDA s : s.house_number = h)]

\* computed housesWithSessions
housesWithSessions(list) == {list[i].house_number : i \in 1..Len(list)}

\* getSessionsForHouse
getSessionsForHouse(list, houseNumber) ==
    SelectSeq(list, LAMBDA s : s.house_number = houseNumber)

\* the minutes stats and getWorkerStats add up for one session
SessionMinutes(s) ==
    OrZero(s.binnen_opruimen_min) + OrZero(s.buiten_balkon_min)
        + OrZero(s.glasbreuk_min) + OrZero(s.diversen_min)

\* the tenths of an hour in totalMinutes, the rest cut off
RoundTenthsDown(totalMinutes) == totalMinutes \div 6

\* Math.round(totalMinutes / 60 * 10), the tenths of an hour: totalMinutes / 6
\* rounded to the nearest integer, a half rounded up
RoundTenths(totalMinutes) == (totalMinutes + 3) \div 6

\* computed stats; totalHours is kept in tenths of an hour
stats(list) ==
    LET totalMinutes == SeqSum([i \in 1..Len(list) |-> SessionMinutes(list[i])])
    IN [ totalSessions |-> Len(list),
         totalHouses |-> Cardinality(housesWithSessions(list)),
         totalMinutes |-> totalMinutes,
         totalHours |-> RoundTenths(totalMinutes) ]

\* the stats of every session, whoever the worker is
getWorkerStatsOfAll(list, workerId) ==
    [ sessions |-> stats(list).totalSessions,
      houses |-> stats(list).totalHouses,
      totalMinutes |-> stats(list).totalMinutes,
      totalHours |-> stats(list).totalHours ]

\* getWorkerStats; workerId is a string, never null
getWorkerStats(list, workerId) ==
    LET workerSessions == SelectSeq(list, LAMBDA s : s.worker_id = Some(workerId))
        totalMinutes == SeqSum([i \in 1..Len(workerSessions) |-> SessionMinutes(workerSessions[i])])
    IN [ sessions |-> Len(workerSessions),
         houses |-> Cardinality(housesWithSessions(workerSessions)),
         totalMinutes |-> totalMinutes,
         totalHours |-> RoundTenths(totalMinutes) ]

\* created_at || '' : the empty string is 0, below every timestamp
DateKey(s) == OrZero(s.created_at)

\* index of the entry of house h in the Map's entries, 0 when it has none
EntryIndex(entries, h) ==
    IF \E i \in 1..Len(entries) : entries[i][1] = h
    THEN CHOOSE i \in 1..Len(entries) : entries[i][1] = h
    ELSE 0

\* the body of the loop of housesInCompletionOrder; houseFirstDate is its
\* entries <<house, date>> in insertion order
HouseFirstDateStep(entries, s) ==
    LET idx == EntryIndex(entries, s.house_number)
    IN IF idx = 0
       THEN Append(entries, <<s.house_number, DateKey(s)>>)
       ELSE IF entries[idx][2] = 0
               \/ (s.created_at # Null /\ s.created_at[1] < entries[idx][2])
            THEN [entries EXCEPT ![idx] = <<s.house_number, DateKey(s)>>]
            ELSE entries

\* for (const s of sessions.value) over list[lo..hi], in list order (the
\* range is taken in halves, the first half evaluated before the second)
RECURSIVE HouseFirstDate(_, _, _, _)
HouseFirstDate(entries, list, lo, hi) ==
    IF lo > hi THEN entries
    ELSE IF lo = hi THEN HouseFirstDateStep(entries, list[lo])
    ELSE LET mid == (lo + hi) \div 2
             first == HouseFirstDate(entries, list, lo, mid)
         IN IF Len(first) >= 0 THEN HouseFirstDate(first, list, mid + 1, hi) ELSE first

\* Array.prototype.sort with (a, b) => a[1].localeCompare(b[1]): a stable
\* sort by date; an entry is put after the entries that are not after it
InsertByDate(sorted, e) ==
    LET k == Cardinality({i \in 1..Len(sorted) : sorted[i][2] <= e[2]})
    IN SubSeq(sorted, 1, k) \o <<e>> \o SubSeq(sorted, k + 1, Len(sorted))

RECURSIVE SortByDate(_, _, _, _)
SortByDate(sorted, entries, lo, hi) ==
    IF lo > hi THEN sorted
    ELSE IF lo = hi THEN InsertByDate(sorted, entries[lo])
    ELSE LET mid == (lo + hi) \div 2
             first == SortByDate(sorted, entries, lo, mid)
         IN IF Len(first) >= 0 THEN SortByDate(first, entries, mid + 1, hi) ELSE first

\* computed housesInCompletionOrder
housesInCompletionOrder(list) ==
    LET entries == HouseFirstDate(<<>>, list, 1, Len(list))
        sorted == SortByDate(<<>>, entries, 1, Len(entries))
    IN [i \in 1..Len(sorted) |-> sorted[i][1]]

\* the elements from index start up to and including index end
SliceInclusive(arr, start, end) ==
    IF start < 0 \/ start >= Len(arr) THEN <<>>
    ELSE SubSeq(arr, start + 1, IF end + 1 > Len(arr) THEN Len(arr) ELSE end + 1)

\* Array.prototype.slice(start, end) on 0-based indices; a negative index
\* counts from the end
Slice(arr, start, end) ==
    LET len == Len(arr)
        Clamp(i) == IF i < 0 THEN (IF len + i < 0 THEN 0 ELSE len + i)
                    ELSE IF i > len THEN len ELSE i
        from == Clamp(start)
        to == Clamp(end)
    IN IF from >= to THEN <<>> ELSE SubSeq(arr, from + 1, to)

\* houses per fase
FaseSize == 50

\* getHousesInFase with the fases counted from 0
getHousesInFaseFromZero(list, faseNum) ==
    LET start == faseNum * FaseSize
    IN Slice(housesInCompletionOrder(list), start, start + FaseSize)

\* getHousesInFase (1-indexed, 50 houses per fase)
getHousesInFase(list, faseNum) ==
    LET start == (faseNum - 1) * FaseSize
    IN Slice(housesInCompletionOrder(list), start, start + FaseSize)

\* Math.ceil(n / 50)
CeilDiv(n, d) == (n + d - 1) \div d

\* totalFases as Math.ceil(length / 50), without the floor of 1
totalFasesNoFloor(list) == CeilDiv(Len(housesInCompletionOrder(list)), FaseSize)

\* computed totalFases: Math.ceil(length / 50) || 1
totalFases(list) ==
    LET fases == CeilDiv(Len(housesInCompletionOrder(list)), FaseSize)
    IN IF fases = 0 THEN 1 ELSE fases

----------------------------------------------------------------------------
(* Record Store (hosted database), table job_sessions *)

RowOf(id) == CHOOSE r \in job_sessions : r.id = id
HasRow(id) == \E r \in job_sessions : r.id = id
FreshIds == {i \in Ids : ~HasRow(i)}

\* rows sorted by created_at descending; the store specification hands out
\* strictly increasing created_at values, so the order is unique
RECURSIVE OrderDesc(_)
OrderDesc(rows) ==
    IF rows = {} THEN <<>>
    ELSE LET top == CHOOSE r \in rows : \A q \in rows : q.created_at[1] <= r.created_at[1]
         IN <<top>> \o OrderDesc(rows \ {top})

\* select('*').is('deleted_at', null).order('created_at', {ascending: false})
SelectSessions == OrderDesc({r \in job_sessions : r.deleted_at = Null})

Idle == [op |-> "idle"]

\* the ids a caller can pass: those of the sessions on screen, and an id
\* that is no row's
NoSuchId == 0
KnownIds == {sessions[i].id : i \in 1..Len(sessions)} \cup {NoSuchId}

\* what createSession and updateSession return for an awaited call: the
\* record of the response, null from the catch
Returned(call) == IF call.ok THEN call.data ELSE Null

\* a call takes the first free call slot
FreeSlot(slot) == calls < MaxCalls /\ inflight[slot] = Idle /\ \A t \in 1..(slot - 1) : inflight[t] # Idle

----------------------------------------------------------------------------
(* sessions store: actions.  Every action is an async function with one      *)
(* await: the part before the await together with the Record Store's        *)
(* handling of the request is one step (Call), the part after the await is  *)
(* another (Return); other actions can run between the two.                 *)

\* what the forms submit (JobSessionInsert): the house and one task
SessionInserts ==
    {Merge(BlankSession, [house_number |-> h, binnen_opruimen_min |-> Some(MaxMin)]) :
        h \in Houses}

\* what the edit modal submits (Partial<JobSessionInsert>)
SessionUpdates == {[binnen_opruimen_min |-> Some(0)]}

\* fetchSessions, up to the await
FetchSessionsCall(slot) ==
    /\ FreeSlot(slot)
    /\ loading' = TRUE
    /\ error' = Null
    /\ \E ok \in BOOLEAN :
          inflight' = [inflight EXCEPT ![slot] =
              [op |-> "fetchSessions", ok |-> ok,
               data |-> IF ok THEN SelectSessions ELSE <<>>]]
    /\ UNCHANGED <<viewVars, workers, workers_rows, workersError, maxHouses, job_sessions, clock, sessions, calc, reportVars>>
    /\ calls' = calls + 1

\* fetchSessions, after the await
FetchSessionsReturn(slot) ==
    /\ inflight[slot].op = "fetchSessions"
    /\ IF inflight[slot].ok
          THEN /\ sessions' = inflight[slot].data
               /\ error' = error
          ELSE /\ error' = Some("Fout bij ophalen klussen")
               /\ sessions' = sessions
    /\ loading' = FALSE
    /\ inflight' = [inflight EXCEPT ![slot] = Idle]
    /\ UNCHANGED <<viewVars, workers, workers_rows, workersError, maxHouses, calls, job_sessions, clock, calc, reportVars>>

\* createSession, up to the await: insert(session).select().single()
CreateSessionCall(slot, session) ==
    /\ FreeSlot(slot)
    /\ loading' = TRUE
    /\ error' = Null
    /\ \/ /\ FreshIds # {}
          /\ clock < MaxId
          /\ LET row == Merge(session, [id |-> CHOOSE i \in FreshIds : \A j \in FreshIds : i <= j,
                                        created_at |-> Some(clock + 1),
                                        deleted_at |-> Null])
             IN /\ job_sessions' = job_sessions \cup {row}
                /\ clock' = clock + 1
                /\ inflight' = [inflight EXCEPT ![slot] =
                       [op |-> "createSession", ok |-> TRUE, data |-> <<row>>]]
       \/ /\ inflight' = [inflight EXCEPT ![slot] =
                 [op |-> "createSession", ok |-> FALSE, data |-> <<>>]]
          /\ UNCHANGED <<job_sessions, clock>>
    /\ UNCHANGED <<viewVars, workers, workers_rows, workersError, maxHouses, sessions, calc, reportVars>>
    /\ calls' = calls + 1

\* createSession, after the await
CreateSessionReturn(slot) ==
    /\ inflight[slot].op = "createSession"
    /\ IF inflight[slot].ok
          THEN /\ sessions' = inflight[slot].data \o sessions
               /\ error' = error
          ELSE /\ error' = Some("Fout bij opslaan")
               /\ sessions' = sessions
    /\ loading' = FALSE
    /\ inflight' = [inflight EXCEPT ![slot] = Idle]
    /\ UNCHANGED <<viewVars, workers, workers_rows, workersError, maxHouses, calls, job_sessions, clock, calc, reportVars>>

\* delete().eq('id', id): the rows with the id are removed from the table
HardDelete(table, id, now) == {r \in table : r.id # id}

\* update({deleted_at: now}).eq('id', id): the rows with the id stay, marked
SoftDelete(table, id, now) ==
    {IF r.id = id THEN Merge(r, [deleted_at |-> Some(now)]) ELSE r : r \in table}

\* deleteSession, up to the await: update({deleted_at: now}).eq('id', id);
\* an id that matches no row updates nothing and is no error
DeleteSessionCall(slot, id) ==
    /\ FreeSlot(slot)
    /\ id \in KnownIds
    /\ loading' = TRUE
    /\ error' = Null
    /\ \/ /\ job_sessions' = SoftDelete(job_sessions, id, clock)
          /\ inflight' = [inflight EXCEPT ![slot] =
                 [op |-> "deleteSession", ok |-> TRUE, id |-> id]]
       \/ /\ inflight' = [inflight EXCEPT ![slot] =
                 [op |-> "deleteSession", ok |-> FALSE, id |-> id]]
          /\ UNCHANGED job_sessions
    /\ UNCHANGED <<viewVars, workers, workers_rows, workersError, maxHouses, clock, sessions, calc, reportVars>>
    /\ calls' = calls + 1

\* an action that logs a failed call and does nothing else
DeleteSessionReturnSilent(slot) ==
    /\ inflight[slot].op = "deleteSession"
    /\ sessions' = IF inflight[slot].ok
                   THEN SelectSeq(sessions, LAMBDA s : s.id # inflight[slot].id)
                   ELSE sessions
    /\ loading' = FALSE
    /\ inflight' = [inflight EXCEPT ![slot] = Idle]
    /\ UNCHANGED <<viewVars, workers, workers_rows, workersError, maxHouses, calls, job_sessions, clock, error, calc, reportVars>>

\* deleteSession, after the await
DeleteSessionReturn(slot) ==
    /\ inflight[slot].op = "deleteSession"
    /\ IF inflight[slot].ok
          THEN /\ sessions' = SelectSeq(sessions, LAMBDA s : s.id # inflight[slot].id)
               /\ error' = error
          ELSE /\ error' = Some("Fout bij verwijderen")
               /\ sessions' = sessions
    /\ loading' = FALSE
    /\ inflight' = [inflight EXCEPT ![slot] = Idle]
    /\ UNCHANGED <<viewVars, workers, workers_rows, workersError, maxHouses, calls, job_sessions, clock, calc, reportVars>>

\* updateSession, up to the await: update(updates).eq('id', id).select()
\* .single(); no row for the id makes single() an error
UpdateSessionCall(slot, id, updates) ==
    /\ FreeSlot(slot)
    /\ id \in KnownIds
    /\ loading' = TRUE
    /\ error' = Null
    /\ \/ /\ HasRow(id)
          /\ LET row == Merge(RowOf(id), updates)
             IN /\ job_sessions' = (job_sessions \ {RowOf(id)}) \cup {row}
                /\ inflight' = [inflight EXCEPT ![slot] =
                       [op |-> "updateSession", ok |-> TRUE, id |-> id, data |-> <<row>>]]
       \/ /\ inflight' = [inflight EXCEPT ![slot] =
                 [op |-> "updateSession", ok |-> FALSE, id |-> id, data |-> <<>>]]
          /\ UNCHANGED job_sessions
    /\ UNCHANGED <<viewVars, workers, workers_rows, workersError, maxHouses, clock, sessions, calc, reportVars>>
    /\ calls' = calls + 1

\* index of the first session with the id, 0 for findIndex's -1
FindIndex(list, id) ==
    IF \E i \in 1..Len(list) : list[i].id = id
    THEN CHOOSE i \in 1..Len(list) :
            list[i].id = id /\ \A j \in 1..(i - 1) : list[j].id # id
    ELSE 0

\* updateSession, after the await
UpdateSessionReturn(slot) ==
    /\ inflight[slot].op = "updateSession"
    /\ IF inflight[slot].ok
          THEN /\ LET idx == FindIndex(sessions, inflight[slot].id)
                  IN sessions' = IF idx # 0
                                 THEN [sessions EXCEPT ![idx] = inflight[slot].data[1]]
                                 ELSE sessions
               /\ error' = error
          ELSE /\ error' = Some("Fout bij bijwerken")
               /\ sessions' = sessions
    /\ loading' = FALSE
    /\ inflight' = [inflight EXCEPT ![slot] = Idle]
    /\ UNCHANGED <<viewVars, workers, workers_rows, workersError, maxHouses, calls, job_sessions, clock, calc, reportVars>>

NoCalc == [op |-> "none"]

\* the calls onMounted of the fase report awaits besides fetchSessions
Requests == {"fetchPhaseHouses", "fetchAllWorkers", "fetchPhotosForHouses"}

\* no fase report view is mounted
NoReport ==
    /\ phase_houses = {}
    /\ phaseHouses = <<>>
    /\ allWorkers = <<>>
    /\ requests = [q \in Requests |-> "idle"]
    /\ view = [pc |-> "none"]

\* the dashboard without a selected house, no upload running, the job form
\* as it is first shown
NoViews ==
    /\ dash = [selectedHouse |-> Null, housePhotos |-> <<>>, loadingPhotos |-> FALSE,
               pending |-> <<>>]
    /\ upload = [pc |-> "idle", sessionId |-> 0, photos |-> 0, i |-> 1, storage |-> {}, rows |-> <<>>,
                 thumbError |-> FALSE, storagePaths |-> <<>>]
    /\ klus = [pc |-> "form", houseNumber |-> Null,
               tasks |-> [t \in {"binnenOpruimen", "buitenBalkon", "zonnescherm",
                                  "glasbreuk", "diversen"} |->
                            [checked |-> FALSE, minutes |-> Null]],
               capturedPhotos |-> <<>>, uploadingPhotos |-> FALSE, showSuccess |-> FALSE,
               worker |-> FALSE, result |-> FALSE, uploadCalled |-> FALSE]

\* a fresh store, and a Record Store without rows
Init ==
    /\ job_sessions = {}
    /\ clock = 0
    /\ sessions = <<>>
    /\ loading = FALSE
    /\ error = Null
    /\ inflight = [s \in Slots |-> Idle]
    /\ calc = NoCalc
    /\ calls = 0
    /\ maxHouses = DefaultMaxHouses
    /\ NoViews
    /\ workers = <<>>
    /\ workers_rows = {}
    /\ workersError = Null
    /\ NoReport

Next ==
    \/ \E slot \in Slots : FetchSessionsCall(slot)
    \/ \E slot \in Slots : FetchSessionsReturn(slot)
    \/ \E slot \in Slots, session \in SessionInserts : CreateSessionCall(slot, session)
    \/ \E slot \in Slots : CreateSessionReturn(slot)
    \/ \E slot \in Slots, id \in Ids \cup {NoSuchId} : DeleteSessionCall(slot, id)
    \/ \E slot \in Slots : DeleteSessionReturn(slot)
    \/ \E slot \in Slots, id \in Ids \cup {NoSuchId}, updates \in SessionUpdates :
          UpdateSessionCall(slot, id, updates)
    \/ \E slot \in Slots : UpdateSessionReturn(slot)

Spec == Init /\ [][Next]_vars

\* a character of a settings value that is no digit
NonDigit == 10

\* the value of the settings row max_houses, a text: its characters, a digit
\* as its number
SettingTexts == {<<2, 5, 0>>, <<2, 5, NonDigit>>, <<0>>, <<NonDigit, 2>>}

\* the number the digits of a text spell
RECURSIVE DigitsValue(_)
DigitsValue(digits) ==
    IF digits = <<>> THEN 0
    ELSE 10 * DigitsValue(SubSeq(digits, 1, Len(digits) - 1)) + digits[Len(digits)]

\* parseInt(text): the number of the leading digits, NaN (Null) without any
ParseInt(text) ==
    LET stop == IF \E i \in 1..Len(text) : text[i] = NonDigit
                THEN CHOOSE i \in 1..Len(text) :
                        text[i] = NonDigit /\ \A j \in 1..(i - 1) : text[j] # NonDigit
                ELSE Len(text) + 1
    IN IF stop = 1 THEN Null ELSE Some(DigitsValue(SubSeq(text, 1, stop - 1)))

\* parseInt(data.value) || 200
ParsedMaxHouses(text) ==
    IF ParseInt(text) = Null \/ ParseInt(text) = Some(0)
    THEN DefaultMaxHouses ELSE ParseInt(text)[1]

\* fetchSettings, up to the await: select('value').eq('key', 'max_houses')
\* .single(); loading and error are not touched
FetchSettingsCall(slot) ==
    /\ FreeSlot(slot)
    /\ \/ \E text \in SettingTexts :
             inflight' = [inflight EXCEPT ![slot] =
                 [op |-> "fetchSettings", ok |-> TRUE, data |-> <<[value |-> text]>>]]
       \/ inflight' = [inflight EXCEPT ![slot] =
                 [op |-> "fetchSettings", ok |-> FALSE, data |-> <<>>]]
    /\ calls' = calls + 1
    /\ UNCHANGED <<viewVars, workers, workers_rows, workersError, maxHouses, job_sessions, clock, sessions, loading, error, calc, reportVars>>

\* fetchSettings, after the await: the error is caught and logged only
FetchSettingsReturn(slot) ==
    /\ inflight[slot].op = "fetchSettings"
    /\ maxHouses' = IF inflight[slot].ok
                    THEN ParsedMaxHouses(inflight[slot].data[1].value)
                    ELSE maxHouses
    /\ inflight' = [inflight EXCEPT ![slot] = Idle]
    /\ UNCHANGED <<viewVars, workers, workers_rows, workersError, calls, job_sessions, clock, sessions,
                   loading, error, calc, reportVars>>

\* the dashboard's onMounted calls fetchSessions and fetchSettings together
NextStartup ==
    \/ \E slot \in Slots : FetchSessionsCall(slot)
    \/ \E slot \in Slots : FetchSessionsReturn(slot)
    \/ \E slot \in Slots : FetchSettingsCall(slot)
    \/ \E slot \in Slots : FetchSettingsReturn(slot)

SpecStartup == Init /\ [][NextStartup]_vars

----------------------------------------------------------------------------
(* The job form (KlussenView) and the edit modal (SessionEditModal).  The   *)
(* inputs are type="number" with min="0"; the buttons are plain click       *)
(* handlers, so the browser does not check min and any number typed is the  *)
(* value of the field.                                                      *)

\* the task refs of the job form and the minutes field each is saved to
TaskField ==
    [ binnenOpruimen |-> "binnen_opruimen_min",
      buitenBalkon |-> "buiten_balkon_min",
      zonnescherm |-> "zonnescherm_verwijderd_min",
      glasbreuk |-> "glasbreuk_min",
      diversen |-> "diversen_min" ]

\* what a minutes field can hold: nothing, 0, a number of minutes, a number
\* below 0
MinuteEntries == {Null, Some(0), Some(MaxMin), Some(0 - 1)}

\* resetForm: no task checked, no minutes
BlankForm == [t \in DOMAIN TaskField |-> [checked |-> FALSE, minutes |-> Null]]

\* the job form with one task filled in or left as it is
KlussenForms ==
    {[BlankForm EXCEPT ![t] = [checked |-> c, minutes |-> m]] :
        t \in {"binnenOpruimen", "diversen"}, c \in BOOLEAN, m \in MinuteEntries}

\* !minutes
NoMinutes(minutes) == minutes = Null \/ minutes = Some(0)

\* canSubmit, worker name and house number filled in, no upload running
canSubmit(form) ==
    \A t \in DOMAIN TaskField : ~(form[t].checked /\ NoMinutes(form[t].minutes))

\* the JobSessionInsert handleSubmit builds, the worker found
SubmitSession(form) ==
    LET TaskOf(f) == CHOOSE t \in DOMAIN TaskField : TaskField[t] = f
    IN [f \in DOMAIN BlankSession |->
          IF \E t \in DOMAIN TaskField : TaskField[t] = f
          THEN (IF form[TaskOf(f)].checked THEN form[TaskOf(f)].minutes ELSE Null)
          ELSE IF f = "worker_id" THEN Some("worker-1")
          ELSE BlankSession[f]]

\* a click on the submit button, enabled by canSubmit() and !isLoading():
\* handleSubmit up to the await in createSession
HandleSubmit(slot, form) ==
    /\ canSubmit(form)
    /\ ~loading
    /\ CreateSessionCall(slot, SubmitSession(form))

\* x || '' for a remark
OrEmpty(text) == IF text = Null THEN "" ELSE text[1]

\* x || null for a remark
OrNull(text) == IF text = "" THEN Null ELSE Some(text)

\* the edit modal's form as the watch fills it from the session
EditForm(s) ==
    [ binnenOpruimen |-> [minutes |-> s.binnen_opruimen_min,
                          opmerkingen |-> OrEmpty(s.binnen_opruimen_opmerkingen)],
      buitenBalkon |-> [minutes |-> s.buiten_balkon_min,
                        opmerkingen |-> OrEmpty(s.buiten_balkon_opmerkingen)],
      zonnescherm |-> [terugplaatsen |-> s.zonnescherm_terugplaatsen = Some(TRUE),
                       opmerkingen |-> OrEmpty(s.zonnescherm_opmerkingen)],
      glasbreuk |-> [minutes |-> s.glasbreuk_min, aantal |-> s.glasbreuk_aantal,
                     opmerkingen |-> OrEmpty(s.glasbreuk_opmerkingen)],
      diversen |-> [minutes |-> s.diversen_min, naam |-> OrEmpty(s.bewoner_naam),
                    opmerkingen |-> OrEmpty(s.diversen_opmerkingen)] ]

\* the form after the user has typed into the minutes field of one task
EditedForm(s, t, m) == [EditForm(s) EXCEPT ![t].minutes = m]

\* computed canSave
canSave(form) ==
    \/ form.binnenOpruimen.minutes # Null
    \/ form.buitenBalkon.minutes # Null
    \/ form.glasbreuk.minutes # Null
    \/ form.diversen.minutes # Null
    \/ form.zonnescherm.terugplaatsen
    \/ form.zonnescherm.opmerkingen # ""

\* the updates handleSave emits, the fields the rows of the model have
SaveUpdates(form) ==
    [ binnen_opruimen_min |-> form.binnenOpruimen.minutes,
      binnen_opruimen_opmerkingen |-> OrNull(form.binnenOpruimen.opmerkingen),
      buiten_balkon_min |-> form.buitenBalkon.minutes,
      buiten_balkon_opmerkingen |-> OrNull(form.buitenBalkon.opmerkingen),
      zonnescherm_terugplaatsen |->
          IF form.zonnescherm.terugplaatsen THEN Some(TRUE) ELSE Null,
      zonnescherm_opmerkingen |-> OrNull(form.zonnescherm.opmerkingen),
      glasbreuk_min |-> form.glasbreuk.minutes,
      glasbreuk_aantal |-> form.glasbreuk.aantal,
      glasbreuk_opmerkingen |-> OrNull(form.glasbreuk.opmerkingen),
      diversen_min |-> form.diversen.minutes,
      diversen_opmerkingen |-> OrNull(form.diversen.opmerkingen),
      bewoner_naam |-> OrNull(form.diversen.naam) ]

\* a click on the modal's save button for a session of the list, minutes m
\* typed for task t: handleSave emits the updates, saveSession calls
\* updateSession
HandleSave(slot, id, t, m) ==
    /\ \E i \in 1..Len(sessions) :
          /\ sessions[i].id = id
          /\ canSave(EditedForm(sessions[i], t, m))
          /\ UpdateSessionCall(slot, id, SaveUpdates(EditedForm(sessions[i], t, m)))

NextForms ==
    \/ \E slot \in Slots, form \in KlussenForms : HandleSubmit(slot, form)
    \/ \E slot \in Slots : CreateSessionReturn(slot)
    \/ \E slot \in Slots, id \in Ids, m \in MinuteEntries :
          HandleSave(slot, id, "binnenOpruimen", m)
    \/ \E slot \in Slots : UpdateSessionReturn(slot)

SpecForms == Init /\ [][NextForms]_vars

----------------------------------------------------------------------------
(* workers store.  A name is the sequence of its characters.  Each action   *)
(* is taken from its call to its return: loading is true only inside it.    *)

\* the variables of the sessions store and its Record Store table
storeVars == <<maxHouses, calls, job_sessions, clock, sessions, loading, error, inflight>>

\* the characters of the names: a space, a letter in lower and in upper case
NameChars == {" ", "j", "J"}

\* the names typed into a form: none, spaces only, a name with a space
\* before it, the same name in lower case, a longer name
Names == {<<>>, <<" ", " ">>, <<" ", "J">>, <<"j">>, <<"J", "j">>}

\* String.prototype.trim
RECURSIVE Trim(_)
Trim(name) ==
    IF name = <<>> THEN name
    ELSE IF Head(name) = " " THEN Trim(Tail(name))
    ELSE IF name[Len(name)] = " " THEN Trim(SubSeq(name, 1, Len(name) - 1))
    ELSE name

\* the name with the case it has
SameCase(name) == name

\* String.prototype.toLowerCase
ToLowerCase(name) == [i \in 1..Len(name) |-> IF name[i] = "J" THEN "j" ELSE name[i]]

\* sort((a, b) => a.name.localeCompare(b.name)): a stable sort; localeCompare
\* compares the letters without their case first and the case next, lower
\* case first, a space before every letter
SortByName(list) ==
    LET Rank(c) == IF c = " " THEN 0 ELSE 1
        Case(c) == IF c = "J" THEN 1 ELSE 0
        RECURSIVE LexLess(_, _)
        LexLess(a, b) ==
            IF b = <<>> THEN FALSE
            ELSE IF a = <<>> THEN TRUE
            ELSE IF Head(a) # Head(b) THEN Head(a) < Head(b)
            ELSE LexLess(Tail(a), Tail(b))
        Key(name) == [i \in 1..Len(name) |-> Rank(name[i])] \o <<0 - 1>>
                        \o [i \in 1..Len(name) |-> Case(name[i])]
        Before(a, b) == LexLess(Key(a.name), Key(b.name))
        RECURSIVE Insert(_, _)
        Insert(sorted, w) ==
            IF sorted = <<>> THEN <<w>>
            ELSE IF Before(w, sorted[Len(sorted)])
                 THEN Append(Insert(SubSeq(sorted, 1, Len(sorted) - 1), w), sorted[Len(sorted)])
                 ELSE Append(sorted, w)
        RECURSIVE Sort(_)
        Sort(l) == IF l = <<>> THEN <<>>
                   ELSE Insert(Sort(SubSeq(l, 1, Len(l) - 1)), l[Len(l)])
    IN Sort(list)

\* table workers ordered by name, as the Record Store can hold it
WorkerTables ==
    { <<[id |-> 1, name |-> <<"j">>, active |-> TRUE]>>,
      <<[id |-> 1, name |-> <<"j">>, active |-> FALSE],
        [id |-> 2, name |-> <<"j", "J">>, active |-> TRUE]>> }

\* the store after fetchWorkers and fetchAllWorkers have succeeded
InitWorkers ==
    /\ \E t \in WorkerTables :
          /\ workers_rows = Range(t)
          /\ allWorkers = t
          /\ workers = SelectSeq(t, LAMBDA w : w.active)
    /\ workersError = Null
    /\ job_sessions = {}
    /\ clock = 0
    /\ sessions = <<>>
    /\ loading = FALSE
    /\ error = Null
    /\ inflight = [s \in Slots |-> Idle]
    /\ calc = NoCalc
    /\ calls = 0
    /\ maxHouses = DefaultMaxHouses
    /\ NoViews
    /\ phase_houses = {}
    /\ phaseHouses = <<>>
    /\ requests = [q \in Requests |-> "idle"]
    /\ view = [pc |-> "none"]

\* addWorker: what it returns, the inserted row or null from the catch
AddWorkerResult(name, ok) ==
    IF ok
    THEN Some([id |-> Cardinality(workers_rows) + 1, name |-> Trim(name), active |-> TRUE])
    ELSE Null

\* addWorker: insert({name: name.trim()}).select().single(), the row pushed
\* to workers and workers sorted
AddWorkerEffect(name, ok) ==
    /\ Cardinality(workers_rows) < MaxWorker
    /\ IF ok
       THEN /\ workers_rows' = workers_rows \cup {AddWorkerResult(name, ok)[1]}
            /\ workers' = SortByName(Append(workers, AddWorkerResult(name, ok)[1]))
            /\ workersError' = Null
       ELSE /\ UNCHANGED <<workers_rows, workers>>
            /\ workersError' = Some("Fout bij toevoegen medewerker")
    /\ UNCHANGED <<viewVars, allWorkers, storeVars, phase_houses, phaseHouses, requests, view>>

\* addWorker called by the dashboard
AddWorker(name, ok) ==
    /\ AddWorkerEffect(name, ok)
    /\ calc' = [op |-> "addWorker", name |-> name, insert |-> Some(Trim(name)),
                value |-> AddWorkerResult(name, ok)]

\* findOrCreateWorker
FindOrCreateWorker(name, ok) ==
    LET trimmedName == Trim(name)
        found == SelectSeq(workers,
                     LAMBDA w : ToLowerCase(w.name) = ToLowerCase(trimmedName))
    IN IF trimmedName = <<>>
       THEN /\ calc' = [op |-> "findOrCreateWorker", name |-> name, insert |-> Null,
                        value |-> Null]
            /\ UNCHANGED <<viewVars, workers, allWorkers, workers_rows, workersError, storeVars,
                           phase_houses, phaseHouses, requests, view>>
       ELSE IF found # <<>>
       THEN /\ calc' = [op |-> "findOrCreateWorker", name |-> name, insert |-> Null,
                        value |-> Some(found[1])]
            /\ UNCHANGED <<viewVars, workers, allWorkers, workers_rows, workersError, storeVars,
                           phase_houses, phaseHouses, requests, view>>
       ELSE /\ AddWorkerEffect(trimmedName, ok)
            /\ calc' = [op |-> "findOrCreateWorker", name |-> name,
                        insert |-> Some(Trim(trimmedName)),
                        value |-> AddWorkerResult(trimmedName, ok)]

\* updateWorker: update({name}).eq('id', id).select().single(); the row
\* replaces the worker in workers and in allWorkers, both sorted again
UpdateWorker(id, name, ok) ==
    /\ \E i \in 1..Len(workers) : workers[i].id = id
    /\ IF ok /\ Trim(name) # <<>>
       THEN LET old == CHOOSE w \in workers_rows : w.id = id
                data == [old EXCEPT !.name = Trim(name)]
                Replace(list) == SortByName([i \in 1..Len(list) |->
                                     IF i = FindIndex(list, id) THEN data ELSE list[i]])
            IN /\ workers_rows' = (workers_rows \ {old}) \cup {data}
               /\ workers' = Replace(workers)
               /\ allWorkers' = Replace(allWorkers)
               /\ workersError' = Null
               /\ calc' = [op |-> "updateWorker", value |-> Some(data)]
       ELSE /\ UNCHANGED <<workers_rows, workers, allWorkers>>
            /\ workersError' = Some("Fout bij bijwerken medewerker")
            /\ calc' = [op |-> "updateWorker", value |-> Null]
    /\ UNCHANGED <<viewVars, storeVars, phase_houses, phaseHouses, requests, view>>

\* removeWorker: update({active: false}).eq('id', id); the worker leaves
\* workers
RemoveWorker(id, ok) ==
    /\ \E i \in 1..Len(workers) : workers[i].id = id
    /\ IF ok
       THEN /\ workers_rows' = {IF w.id = id THEN [w EXCEPT !.active = FALSE] ELSE w :
                                   w \in workers_rows}
            /\ workers' = SelectSeq(workers, LAMBDA w : w.id # id)
            /\ workersError' = Null
       ELSE /\ UNCHANGED <<workers_rows, workers>>
            /\ workersError' = Some("Fout bij verwijderen medewerker")
    /\ calc' = [op |-> "removeWorker"]
    /\ UNCHANGED <<viewVars, allWorkers, storeVars, phase_houses, phaseHouses, requests, view>>

NextWorkers ==
    \/ \E name \in Names, ok \in BOOLEAN : AddWorker(name, ok)
    \/ \E name \in Names, ok \in BOOLEAN : FindOrCreateWorker(name, ok)
    \/ \E id \in 1..MaxWorker, name \in {<<>>, <<" ", "J">>}, ok \in BOOLEAN :
          UpdateWorker(id, name, ok)
    \/ \E id \in 1..MaxWorker, ok \in BOOLEAN : RemoveWorker(id, ok)

SpecWorkers == InitWorkers /\ [][NextWorkers]_vars

----------------------------------------------------------------------------
(* The derived views on given lists, as the store's tests use them:         *)
(* store.sessions is assigned, then a view is read.                         *)

WorkerIds == {"worker-1", "worker-2"}

MinuteFields ==
    {"binnen_opruimen_min", "buiten_balkon_min", "zonnescherm_verwijderd_min",
     "glasbreuk_min", "diversen_min"}

\* the minutes of the five tasks of one session: none entered, one task
\* entered, or all five entered
MinutePatterns ==
    {[f \in MinuteFields |-> Null]}
        \cup {[f \in MinuteFields |-> IF f = g THEN Some(MaxMin) ELSE Null] :
                 g \in {"binnen_opruimen_min", "zonnescherm_verwijderd_min", "glasbreuk_min"}}
        \cup {[f \in MinuteFields |-> Some(MaxMin)]}

\* sessions that differ in house and creation time
OrderSamples ==
    {Merge(BlankSession, [house_number |-> h, created_at |-> Some(t)]) :
        h \in 1..MaxViewHouse, t \in 1..MaxTime}

\* who worked where: worker-1 in two houses, worker-2 in one, nobody recorded
\* in one
WorkSamples ==
    {[house_number |-> 1, worker_id |-> Some("worker-1")],
     [house_number |-> 2, worker_id |-> Some("worker-1")],
     [house_number |-> 2, worker_id |-> Some("worker-2")],
     [house_number |-> 3, worker_id |-> Null]}

\* sessions that differ in task minutes, and sessions that differ in house
\* and worker
TaskSamples ==
    {Merge(Merge(BlankSession, p), [house_number |-> 1, worker_id |-> Some("worker-1")]) :
        p \in MinutePatterns}
      \cup {Merge(Merge(BlankSession, [binnen_opruimen_min |-> Some(MaxMin)]), w) :
               w \in WorkSamples}

\* the lists of up to n sessions drawn from a set, the id being the position
ListsOf(samples, n) ==
    UNION {{[i \in 1..k |-> Merge(f[i], [id |-> i])] : f \in [1..k -> samples]} :
              k \in 0..n}

\* n houses with one session each, created in house order or against it
BigList(n, ascending) ==
    [i \in 1..n |->
        Merge(BlankSession,
              [id |-> i, house_number |-> i,
               created_at |-> Some(IF ascending THEN i ELSE n + 1 - i)])]

\* one session of worker-1 with m minutes
MinuteLists ==
    {<<Merge(BlankSession, [id |-> 1, worker_id |-> Some("worker-1"),
                            binnen_opruimen_min |-> Some(m)])>> : m \in 0..MaxMinutes}

ViewLists ==
    ListsOf(OrderSamples, MaxLen)
        \cup ListsOf(TaskSamples, MaxTaskLen)
        \cup {BigList(n, a) : n \in 0..MaxBig, a \in BOOLEAN}
        \cup MinuteLists

InitViews ==
    /\ sessions \in ViewLists
    /\ job_sessions = {}
    /\ clock = 0
    /\ loading = FALSE
    /\ error = Null
    /\ inflight = [s \in Slots |-> Idle]
    /\ calls = 0
    /\ maxHouses = DefaultMaxHouses
    /\ NoViews
    /\ workers = <<>>
    /\ workers_rows = {}
    /\ workersError = Null
    /\ calc = NoCalc
    /\ NoReport

ReadStats ==
    /\ calc' = [op |-> "stats", value |-> stats(sessions)]
    /\ UNCHANGED <<viewVars, workers, workers_rows, workersError, maxHouses, calls, job_sessions, clock, sessions, loading, error, inflight, reportVars>>

ReadWorkerStats(workerId) ==
    /\ calc' = [op |-> "getWorkerStats", workerId |-> workerId,
                value |-> getWorkerStats(sessions, workerId)]
    /\ UNCHANGED <<viewVars, workers, workers_rows, workersError, maxHouses, calls, job_sessions, clock, sessions, loading, error, inflight, reportVars>>

ReadHousesInCompletionOrder ==
    /\ calc' = [op |-> "housesInCompletionOrder",
                value |-> housesInCompletionOrder(sessions)]
    /\ UNCHANGED <<viewVars, workers, workers_rows, workersError, maxHouses, calls, job_sessions, clock, sessions, loading, error, inflight, reportVars>>

ReadHousesInFase(faseNum) ==
    /\ calc' = [op |-> "getHousesInFase", faseNum |-> faseNum,
                value |-> getHousesInFase(sessions, faseNum)]
    /\ UNCHANGED <<viewVars, workers, workers_rows, workersError, maxHouses, calls, job_sessions, clock, sessions, loading, error, inflight, reportVars>>

ReadTotalFases ==
    /\ calc' = [op |-> "totalFases", value |-> totalFases(sessions)]
    /\ UNCHANGED <<viewVars, workers, workers_rows, workersError, maxHouses, calls, job_sessions, clock, sessions, loading, error, inflight, reportVars>>

NextViews ==
    \/ ReadStats
    \/ \E w \in WorkerIds : ReadWorkerStats(w)
    \/ ReadHousesInCompletionOrder
    \/ \E k \in (0 - 1)..MaxFase : ReadHousesInFase(k)
    \/ ReadTotalFases

SpecViews == InitViews /\ [][NextViews]_vars

----------------------------------------------------------------------------
(* Fixed fases.  The fase report and the store's tests use a sessions store *)
(* that loads the house-to-phase mapping of table phase_houses             *)
(* (fetchPhaseHouses); with it getHousesInFase reads the mapping and       *)
(* totalFases is the number of project phases.                             *)

\* the project phases (phase_number BETWEEN 1 AND 6)
PhaseCount == 6

\* the elements of a set of numbers, ascending
RECURSIVE SortAsc(_)
SortAsc(S) ==
    IF S = {} THEN <<>>
    ELSE LET least == CHOOSE x \in S : \A y \in S : x <= y
         IN <<least>> \o SortAsc(S \ {least})

\* the loaded mapping: for each phase with houses, its houses
GroupByPhase(rows) ==
    [k \in {r.phase_number : r \in rows} |->
        {r.house_number : r \in {q \in rows : q.phase_number = k}}]

\* getHousesInFase computed from the sessions, whatever the mapping
getHousesInFaseOfSessions(mapping, faseNum) == getHousesInFase(sessions, faseNum)

\* getHousesInFase on the loaded mapping
getHousesInFaseFixed(mapping, faseNum) ==
    IF faseNum \in DOMAIN mapping THEN SortAsc(mapping[faseNum]) ELSE <<>>

\* totalFases computed from the sessions, 50 houses to a fase
totalFasesOfSessions(list) == totalFases(list)

\* totalFases on the mapping: the number of project phases
totalFasesFixed(list) == PhaseCount

----------------------------------------------------------------------------
(* Fase report view (route /print/fase/:num, opened in a new tab: the       *)
(* stores are fresh when it is mounted)                                     *)

\* table workers, ordered by name
WorkersTable ==
    <<[id |-> "worker-1", name |-> "Jan"], [id |-> "worker-2", name |-> "Piet"]>>

\* table session_photos: seven photos of session 1, one of session 2; a
\* later photo has a greater id
SessionPhotos ==
    {[id |-> p, session_id |-> IF p <= 7 THEN 1 ELSE 2] : p \in 1..8}

\* the elements of a set of numbers, descending
RECURSIVE SortDesc(_)
SortDesc(S) ==
    IF S = {} THEN <<>>
    ELSE LET most == CHOOSE x \in S : \A y \in S : y <= x
         IN <<most>> \o SortDesc(S \ {most})

\* photos store, fetchPhotosForHouses: session_photos joined with the
\* job_sessions that are not deleted, newest first, grouped by house; every
\* house asked for has an entry; {} when no house is asked for
fetchPhotosForHouses(houseNumbers) ==
    IF Len(houseNumbers) = 0 THEN <<>>
    ELSE [h \in Range(houseNumbers) |->
            SortDesc({ph.id : ph \in
                {q \in SessionPhotos :
                    \E r \in job_sessions :
                        /\ r.id = q.session_id
                        /\ r.house_number = h
                        /\ r.deleted_at = Null}})]

\* Number(route.params.num) || 1 ; a param that is no number is Null
faseNum ==
    IF view.param = Null \/ view.param[1] = 0 THEN 1 ELSE view.param[1]

\* computed faseHouses
faseHouses == getHousesInFaseFixed(phaseHouses, faseNum)

\* getWorkerName
getWorkerName(workerId) ==
    IF workerId = Null THEN ""
    ELSE LET found == SelectSeq(allWorkers, LAMBDA w : w.id = workerId[1])
         IN IF Len(found) = 0 THEN "" ELSE found[1].name

\* r.trim() === ''
BlankText(r) == r \in {"", " "}

\* collectRemarks; the joined text is kept as the sequence of its remarks
collectRemarks(houseSessions, field) ==
    LET remarks == SelectSeq([i \in 1..Len(houseSessions) |-> houseSessions[i][field]],
                             LAMBDA r : r # Null /\ ~BlankText(r[1]))
    IN IF Len(remarks) > 0 THEN Some([i \in 1..Len(remarks) |-> remarks[i][1]]) ELSE Null

\* the minutes of m / 60 hours for which the double m / 60 lies below the
\* decimal tie x.x5 (m below 300)
HalfDown ==
    {9, 21, 51, 57, 69, 87, 99, 117, 123, 129, 153, 159, 183, 189, 213, 219,
     243, 261, 273, 291}

\* (minutes / 60).toFixed(1), in tenths of an hour: the tenth nearest to the
\* double minutes / 60
ToFixedTenths(minutes) ==
    LET whole == minutes \div 6
        rest == minutes % 6
    IN IF rest > 3 \/ (rest = 3 /\ minutes \notin HalfDown) THEN whole + 1 ELSE whole

\* new Set of the values, in insertion order
RECURSIVE Distinct(_)
Distinct(s) ==
    IF s = <<>> THEN <<>>
    ELSE LET d == Distinct(SubSeq(s, 1, Len(s) - 1))
             x == s[Len(s)]
         IN IF x \in Range(d) THEN d ELSE Append(d, x)

\* sum of one minutes field over the sessions of a house
FieldMinutes(houseSessions, field) ==
    SeqSum([i \in 1..Len(houseSessions) |-> OrZero(houseSessions[i][field])])

\* the hours of a task, null when no minutes
TaskHours(min) == IF min > 0 THEN Some(ToFixedTenths(min)) ELSE Null


\* totalMin of a house in faseHousesData
HouseTotalMin(houseSessions) ==
    FieldMinutes(houseSessions, "binnen_opruimen_min")
        + FieldMinutes(houseSessions, "buiten_balkon_min")
        + FieldMinutes(houseSessions, "glasbreuk_min")
        + FieldMinutes(houseSessions, "diversen_min")

\* the callback of faseHouses.map in faseHousesData; hours are kept in
\* tenths, workers as the sequence of the joined names
HouseRow(houseNum) ==
    LET houseSessions == getSessionsForHouse(sessions, houseNum)
        binnenMin == FieldMinutes(houseSessions, "binnen_opruimen_min")
        balkonMin == FieldMinutes(houseSessions, "buiten_balkon_min")
        hasZonnescherm ==
            \E i \in 1..Len(houseSessions) :
                \/ houseSessions[i].zonnescherm_terugplaatsen # Null
                \/ /\ houseSessions[i].zonnescherm_opmerkingen # Null
                   /\ houseSessions[i].zonnescherm_opmerkingen[1] # ""
        glasbreukMin == FieldMinutes(houseSessions, "glasbreuk_min")
        diversenMin == FieldMinutes(houseSessions, "diversen_min")
        totalMin == binnenMin + balkonMin + glasbreukMin + diversenMin
        workerIds ==
            Distinct(SelectSeq([i \in 1..Len(houseSessions) |-> houseSessions[i].worker_id],
                               LAMBDA w : w # Null /\ w[1] # ""))
        workerNames ==
            SelectSeq([i \in 1..Len(workerIds) |-> getWorkerName(workerIds[i])],
                      LAMBDA name : name # "")
        remarks ==
            [ binnen |-> collectRemarks(houseSessions, "binnen_opruimen_opmerkingen"),
              balkon |-> collectRemarks(houseSessions, "buiten_balkon_opmerkingen"),
              zonnescherm |-> collectRemarks(houseSessions, "zonnescherm_opmerkingen"),
              glasbreuk |-> collectRemarks(houseSessions, "glasbreuk_opmerkingen"),
              diversen |-> collectRemarks(houseSessions, "diversen_opmerkingen") ]
    IN [ number |-> houseNum,
         totalHours |-> ToFixedTenths(totalMin),
         binnenHours |-> TaskHours(binnenMin),
         balkonHours |-> TaskHours(balkonMin),
         zonnescherm |-> hasZonnescherm,
         glasbreukHours |-> TaskHours(glasbreukMin),
         diversenHours |-> TaskHours(diversenMin),
         workers |-> workerNames,
         remarks |-> remarks,
         hasRemarks |-> \E k \in DOMAIN remarks : remarks[k] # Null ]

\* faseHousesData with a row only for the houses that have sessions
faseHousesDataOfWorked ==
    LET worked == SelectSeq(faseHouses, LAMBDA h : h \in housesWithSessions(sessions))
    IN [i \in 1..Len(worked) |-> HouseRow(worked[i])]

\* computed faseHousesData
faseHousesData == [i \in 1..Len(faseHouses) |-> HouseRow(faseHouses[i])]

\* Math.round((n / total) * 100), 0 without houses
Pct(n, total) == IF total > 0 THEN (200 * n + total) \div (2 * total) ELSE 0

\* computed overviewStats
overviewStats ==
    LET rows == faseHousesData
        total == Len(rows)
        Count(field) == Cardinality({i \in 1..total : rows[i][field] # Null})
        zonneschermCount == Cardinality({i \in 1..total : rows[i].zonnescherm})
        Entry(n) == [count |-> n, pct |-> Pct(n, total)]
    IN [ total |-> total,
         binnen |-> Entry(Count("binnenHours")),
         balkon |-> Entry(Count("balkonHours")),
         zonnescherm |-> Entry(zonneschermCount),
         glasbreuk |-> Entry(Count("glasbreukHours")),
         diversen |-> Entry(Count("diversenHours")) ]

\* the fase total as the hours of the summed minutes, rounded once
faseTotalHoursOfSum ==
    ToFixedTenths(SeqSum([i \in 1..Len(faseHouses) |->
                             HouseTotalMin(getSessionsForHouse(sessions, faseHouses[i]))]))

\* computed faseTotalHours, in tenths: the sum of the rows' totalHours; the
\* sum of one-decimal values is off a multiple of 0.1 by far less than 0.05,
\* and toFixed(1) gives that multiple
faseTotalHours ==
    SeqSum([i \in 1..Len(faseHousesData) |-> faseHousesData[i].totalHours])

\* onMounted up to the await of Promise.all: fetchSessions, fetchPhaseHouses
\* and fetchAllWorkers are called, each running up to its await
OnMounted ==
    /\ view.pc = "setup"
    /\ loading' = TRUE
    /\ error' = Null
    /\ \E ok \in BOOLEAN :
          inflight' = [inflight EXCEPT ![1] =
              [op |-> "fetchSessions", ok |-> ok,
               data |-> IF ok THEN SelectSessions ELSE <<>>]]
    /\ requests' = [requests EXCEPT !["fetchPhaseHouses"] = "pending",
                                    !["fetchAllWorkers"] = "pending"]
    /\ view' = [view EXCEPT !.pc = "fetching"]
    /\ calls' = calls + 2
    /\ UNCHANGED <<viewVars, workers, workers_rows, workersError, maxHouses, job_sessions, clock, sessions, calc, phase_houses, phaseHouses, allWorkers>>

\* fetchPhaseHouses, after the await: the mapping is stored, a failure leaves
\* it as it was
FetchPhaseHousesReturn ==
    /\ requests["fetchPhaseHouses"] = "pending"
    /\ \/ /\ phaseHouses' = GroupByPhase(phase_houses)
          /\ requests' = [requests EXCEPT !["fetchPhaseHouses"] = "ok"]
       \/ /\ requests' = [requests EXCEPT !["fetchPhaseHouses"] = "failed"]
          /\ UNCHANGED phaseHouses
    /\ UNCHANGED <<viewVars, workers, workers_rows, workersError, maxHouses, calls, job_sessions, clock, sessions, loading, error, inflight, calc,
                   phase_houses, allWorkers, view>>

\* workers store, fetchAllWorkers, after the await; the error is logged only
FetchAllWorkersReturn ==
    /\ requests["fetchAllWorkers"] = "pending"
    /\ \/ /\ allWorkers' = WorkersTable
          /\ requests' = [requests EXCEPT !["fetchAllWorkers"] = "ok"]
       \/ /\ requests' = [requests EXCEPT !["fetchAllWorkers"] = "failed"]
          /\ UNCHANGED allWorkers
    /\ UNCHANGED <<viewVars, workers, workers_rows, workersError, maxHouses, calls, job_sessions, clock, sessions, loading, error, inflight, calc,
                   phase_houses, phaseHouses, view>>

\* onMounted after Promise.all: fetchPhotosForHouses is called with the
\* houses of the fase
OnMountedFetchPhotos ==
    /\ view.pc = "fetching"
    /\ inflight[1] = Idle
    /\ requests["fetchPhaseHouses"] # "pending"
    /\ requests["fetchAllWorkers"] # "pending"
    /\ requests' = [requests EXCEPT !["fetchPhotosForHouses"] = "pending"]
    /\ view' = [view EXCEPT !.pc = "photos"]
    /\ UNCHANGED <<viewVars, workers, workers_rows, workersError, maxHouses, calls, job_sessions, clock, sessions, loading, error, inflight, calc,
                   phase_houses, phaseHouses, allWorkers>>

\* Math.min(a, b)
Min(a, b) == IF a < b THEN a ELSE b

\* onMounted after the await of fetchPhotosForHouses.  The call is not in a
\* try: when the query fails the promise of onMounted is rejected and the
\* statements after the await do not run.  No house asked for, no query.
OnMountedPhotosReturn ==
    /\ view.pc = "photos"
    /\ \/ LET photos == fetchPhotosForHouses(faseHouses)
              count == SeqSum([i \in 1..Len(faseHouses) |->
                                  Min(Len(photos[faseHouses[i]]), 6)])
          IN /\ view' = [view EXCEPT !.photosByHouse = photos,
                                     !.totalImages = count,
                                     !.imagesLoading = IF count = 0 THEN FALSE ELSE @,
                                     !.loading = FALSE,
                                     !.pc = "done"]
             /\ requests' = [requests EXCEPT !["fetchPhotosForHouses"] = "ok"]
       \/ /\ Len(faseHouses) > 0
          /\ view' = [view EXCEPT !.pc = "rejected"]
          /\ requests' = [requests EXCEPT !["fetchPhotosForHouses"] = "failed"]
    /\ UNCHANGED <<viewVars, workers, workers_rows, workersError, maxHouses, calls, job_sessions, clock, sessions, loading, error, inflight, calc,
                   phase_houses, phaseHouses, allWorkers>>

\* the img elements of the report: every photo of every house of the fase
ImageCount ==
    SeqSum([i \in 1..Len(faseHouses) |->
               IF faseHouses[i] \in DOMAIN view.photosByHouse
               THEN Len(view.photosByHouse[faseHouses[i]]) ELSE 0])

\* onImageLoad (also run by hideImage), once per img element
OnImageLoad ==
    /\ view.pc = "done"
    /\ view.imagesLoaded < ImageCount
    /\ view' = [view EXCEPT !.imagesLoaded = @ + 1,
                            !.imagesLoading =
                                IF view.imagesLoaded + 1 >= view.totalImages THEN FALSE ELSE @]
    /\ UNCHANGED <<viewVars, workers, workers_rows, workersError, maxHouses, calls, job_sessions, clock, sessions, loading, error, inflight, calc,
                   phase_houses, phaseHouses, allWorkers, requests>>

\* what the sessions of the report's tables record
ReportSamples ==
    {[house_number |-> h, binnen_opruimen_min |-> Some(3), worker_id |-> Some("worker-1")] :
        h \in 1..2}
    \cup {[house_number |-> 1, buiten_balkon_min |-> Some(9), worker_id |-> Some("worker-2"),
           buiten_balkon_opmerkingen |-> Some("nat")],
          [house_number |-> 1, zonnescherm_verwijderd_min |-> Some(3),
           zonnescherm_terugplaatsen |-> Some(TRUE),
           zonnescherm_opmerkingen |-> Some(" ")],
          [house_number |-> 2, glasbreuk_min |-> Some(0), glasbreuk_aantal |-> Some(1),
           diversen_min |-> Some(3), worker_id |-> Some("worker-1")],
          [house_number |-> 2, binnen_opruimen_min |-> Some(3), worker_id |-> Some("worker-1"),
           binnen_opruimen_opmerkingen |-> Some("weg"), deleted_at |-> Some(1)]}

\* the tables job_sessions of the report specification: per id one row or none
ReportTables ==
    LET Choices == [1..MaxRow -> ReportSamples \cup {Null}]
    IN {{Merge(Merge(BlankSession, c[id]), [id |-> id, created_at |-> Some(id)]) :
            id \in {i \in 1..MaxRow : c[i] # Null}} : c \in Choices}

\* the tables phase_houses of the report specification (house_number UNIQUE);
\* house 3 has no sessions
PhaseTables ==
    { {},
      {[phase_number |-> 1, house_number |-> 3], [phase_number |-> 1, house_number |-> 1],
       [phase_number |-> 2, house_number |-> 2]},
      {[phase_number |-> 1, house_number |-> 2], [phase_number |-> 1, house_number |-> 1],
       [phase_number |-> 2, house_number |-> 3]} }

\* route.params.num: not a number, or a number
RouteParams == {Null, Some(2)}

\* the report view after setup, fresh stores, the tables as they are
InitReport ==
    /\ job_sessions \in ReportTables
    /\ phase_houses \in PhaseTables
    /\ clock = 1
    /\ sessions = <<>>
    /\ loading = FALSE
    /\ error = Null
    /\ inflight = [s \in Slots |-> Idle]
    /\ calls = 0
    /\ maxHouses = DefaultMaxHouses
    /\ NoViews
    /\ workers = <<>>
    /\ workers_rows = {}
    /\ workersError = Null
    /\ calc = NoCalc
    /\ phaseHouses = <<>>
    /\ allWorkers = <<>>
    /\ requests = [q \in Requests |-> "idle"]
    /\ \E param \in RouteParams :
          view = [pc |-> "setup", param |-> param, loading |-> TRUE,
                  imagesLoading |-> TRUE, imagesLoaded |-> 0, totalImages |-> 0,
                  photosByHouse |-> <<>>]

NextReport ==
    \/ OnMounted
    \/ \E slot \in Slots : FetchSessionsReturn(slot)
    \/ FetchPhaseHousesReturn
    \/ FetchAllWorkersReturn
    \/ OnMountedFetchPhotos
    \/ OnMountedPhotosReturn
    \/ OnImageLoad

SpecReport == InitReport /\ [][NextReport]_vars

----------------------------------------------------------------------------
(* Table phase_houses: the INSERT statements of its migration               *)

\* phase_number given in a row: phases of the project and one that is none
InsertPhases == {1, 2, PhaseCount + 1}

\* house_number given in a row
InsertHouses == {288, 290}

\* the rows one INSERT statement can list, in the order listed
InsertStatements ==
    LET Rows == [phase_number : InsertPhases, house_number : InsertHouses]
    IN UNION {[1..n -> Rows] : n \in 1..MaxBatch}

\* one row with ON CONFLICT (house_number) DO UPDATE: the later phase replaces
InsertRowReplacing(table, row) ==
    {r \in table : r.house_number # row.house_number} \cup {row}

\* one row of INSERT ... ON CONFLICT (house_number) DO NOTHING: a row whose
\* house_number is in the table is skipped
InsertRow(table, row) ==
    IF \E r \in table : r.house_number = row.house_number THEN table
    ELSE table \cup {row}

\* the rows of a statement, in order
RECURSIVE InsertRows(_, _)
InsertRows(table, rows) ==
    IF rows = <<>> THEN table
    ELSE InsertRows(InsertRow(table, Head(rows)), Tail(rows))

\* CHECK (phase_number BETWEEN 1 AND 6)
PhaseCheck(row) == row.phase_number >= 1 /\ row.phase_number <= PhaseCount

\* INSERT INTO phase_houses ... VALUES rows ON CONFLICT (house_number) DO
\* NOTHING; a row that fails the CHECK fails the statement, which then
\* inserts nothing
InsertPhaseHouses(rows) ==
    /\ IF \A i \in 1..Len(rows) : PhaseCheck(rows[i])
       THEN /\ phase_houses' = InsertRows(phase_houses, rows)
            /\ calc' = [op |-> "insertPhaseHouses", rows |-> rows, error |-> Null]
       ELSE /\ phase_houses' = phase_houses
            /\ calc' = [op |-> "insertPhaseHouses", rows |-> rows,
                        error |-> Some("check_violation")]
    /\ UNCHANGED <<viewVars, workers, workers_rows, workersError, maxHouses, calls, job_sessions, clock, sessions, loading, error, inflight,
                   phaseHouses, allWorkers, requests, view>>

NextPhases == \E rows \in InsertStatements : InsertPhaseHouses(rows)

SpecPhases == Init /\ [][NextPhases]_vars

----------------------------------------------------------------------------
(* The backup function (Deno.serve handler).  A request is answered in one  *)
(* step; the response and what the handler did on the way are the value of  *)
(* calc.                                                                    *)

\* TABLES
BackupTables == <<"job_sessions", "session_photos", "workers", "settings">>

\* the x-backup-secret header of a request, null without one, and the value
\* of BACKUP_SECRET, undefined (Null) when it is not configured
SecretValues == {Null, Some(""), Some("s1"), Some("s2")}

\* expectedSecret && secret !== expectedSecret
Unauthorized(secret, expectedSecret) ==
    /\ expectedSecret # Null
    /\ expectedSecret # Some("")
    /\ secret # expectedSecret

\* the handler; the export of table number failing fails (0: none does),
\* resendKey tells whether RESEND_API_KEY is set
ServeBackup(secret, expectedSecret, failing, resendKey) ==
    /\ calc' =
          [ op |-> "backup", secret |-> secret, expectedSecret |-> expectedSecret,
            failing |-> failing, resendKey |-> resendKey ] @@
          ( IF Unauthorized(secret, expectedSecret)
            THEN [status |-> 401, tables |-> <<>>, uploaded |-> FALSE, emailed |-> FALSE]
            ELSE IF failing # 0
            THEN [status |-> 500, tables |-> SubSeq(BackupTables, 1, failing),
                  uploaded |-> FALSE, emailed |-> FALSE]
            ELSE [status |-> 200, tables |-> BackupTables, uploaded |-> TRUE,
                  emailed |-> resendKey] )
    /\ UNCHANGED <<viewVars, workers, workers_rows, workersError, allWorkers, storeVars,
                   phase_houses, phaseHouses, requests, view>>

NextBackup ==
    \E secret \in SecretValues, expectedSecret \in SecretValues \ {Some("s2")},
       failing \in 0..Len(BackupTables), resendKey \in BOOLEAN :
        ServeBackup(secret, expectedSecret, failing, resendKey)

SpecBackup == Init /\ [][NextBackup]_vars

----------------------------------------------------------------------------
(* The dashboard's house detail: the photos of the selected house *)

\* photos store, fetchPhotosForHouse: the ids of all sessions of the house
\* (deleted ones too), then their photos, newest first; [] without sessions
fetchPhotosForHouse(houseNumber) ==
    LET sessionIds == {r.id : r \in {q \in job_sessions : q.house_number = houseNumber}}
    IN IF sessionIds = {} THEN <<>>
       ELSE SortDesc({ph.id : ph \in {q \in SessionPhotos : q.session_id \in sessionIds}})

\* the dashboard is mounted on a Record Store with one session in each of
\* the houses 1 and 2; the session of house 2 may be soft-deleted
InitDashboard ==
    /\ \E deleted \in {Null, Some(1)} :
          job_sessions =
              {Merge(BlankSession, [id |-> 1, house_number |-> 1]),
               Merge(BlankSession, [id |-> 2, house_number |-> 2, deleted_at |-> deleted])}
    /\ clock = 1
    /\ sessions = <<>>
    /\ loading = FALSE
    /\ error = Null
    /\ inflight = [s \in Slots |-> Idle]
    /\ calls = 0
    /\ maxHouses = DefaultMaxHouses
    /\ NoViews
    /\ workers = <<>>
    /\ workers_rows = {}
    /\ workersError = Null
    /\ calc = NoCalc
    /\ NoReport

\* watch(selectedHouse), up to its await: a house sets loadingPhotos and asks
\* for its photos; closing the detail (null) empties housePhotos at once
SelectHouse(selected) ==
    /\ selected # dash.selectedHouse
    /\ IF selected # Null
       THEN /\ Len(dash.pending) < MaxSlot
            /\ dash' = [dash EXCEPT !.selectedHouse = selected,
                                    !.loadingPhotos = TRUE,
                                    !.pending = Append(@, selected[1])]
       ELSE dash' = [dash EXCEPT !.selectedHouse = Null, !.housePhotos = <<>>]
    /\ UNCHANGED <<upload, klus, workers, workers_rows, workersError, allWorkers, storeVars,
                   calc, phase_houses, phaseHouses, requests, view>>

\* watch(selectedHouse), after its await: the photos fetched for the house of
\* this call are stored, or [] when the fetch threw; loadingPhotos is cleared
HousePhotosReturn(i, ok) ==
    /\ i \in 1..Len(dash.pending)
    /\ dash' = [dash EXCEPT
                  !.housePhotos = IF ok THEN fetchPhotosForHouse(dash.pending[i]) ELSE <<>>,
                  !.loadingPhotos = FALSE,
                  !.pending = SubSeq(@, 1, i - 1) \o SubSeq(@, i + 1, Len(@))]
    /\ UNCHANGED <<upload, klus, workers, workers_rows, workersError, allWorkers, storeVars,
                   calc, phase_houses, phaseHouses, requests, view>>

NextDashboard ==
    \/ \E selected \in {Null} \cup {Some(h) : h \in 1..(MaxViewHouse + 1)} :
          SelectHouse(selected)
    \/ \E i \in 1..MaxSlot, ok \in BOOLEAN : HousePhotosReturn(i, ok)

SpecDashboard == InitDashboard /\ [][NextDashboard]_vars

----------------------------------------------------------------------------
(* The photos store: uploadPhotos *)

MaxPhotos == 3

\* generateStorageFilename: a path of its own for every photo of the batch
StoragePath(photo) == [photo |-> photo, thumb |-> FALSE]

\* getThumbnailPath: the path of the thumbnail next to the original
getThumbnailPath(storagePath) == [storagePath EXCEPT !.thumb = TRUE]

\* a row that carries the thumbnail path whatever happened to the thumbnail
AnyThumbnailPath(thumbError, thumbnailPath) == Some(thumbnailPath)

\* thumbnail_path of the photoRecord: thumbError ? null : thumbnailPath
RecordThumbnailPath(thumbError, thumbnailPath) ==
    IF thumbError THEN Null ELSE Some(thumbnailPath)

\* uploadPhotos is called with a session id and a batch of n photos; an empty
\* batch returns []
UploadPhotos(sessionId, n) ==
    /\ upload.pc = "idle"
    /\ upload' = [upload EXCEPT !.sessionId = sessionId, !.photos = n, !.i = 1,
                                !.pc = IF n = 0 THEN "returned" ELSE "original"]
    /\ UNCHANGED <<dash, klus, workers, workers_rows, workersError, allWorkers, storeVars,
                   calc, phase_houses, phaseHouses, requests, view>>

\* the photo is compressed and its original uploaded; compressImage throwing
\* or an uploadError ends the batch with the exception
UploadOriginal(outcome) ==
    /\ upload.pc = "original"
    /\ upload' = IF outcome = "ok"
                 THEN [upload EXCEPT !.storage = @ \cup {StoragePath(upload.i)},
                                     !.pc = "thumbnail"]
                 ELSE [upload EXCEPT !.pc = "thrown"]
    /\ UNCHANGED <<dash, klus, workers, workers_rows, workersError, allWorkers, storeVars,
                   calc, phase_houses, phaseHouses, requests, view>>

\* the thumbnail is generated and uploaded; a thumbError is logged only,
\* generateThumbnail throwing ends the batch with the exception
UploadThumbnail(outcome) ==
    /\ upload.pc = "thumbnail"
    /\ upload' =
          CASE outcome = "ok" ->
                  [upload EXCEPT
                      !.storage = @ \cup {getThumbnailPath(StoragePath(upload.i))},
                      !.thumbError = FALSE, !.pc = "insert"]
            [] outcome = "uploadError" ->
                  [upload EXCEPT !.thumbError = TRUE, !.pc = "insert"]
            [] OTHER -> [upload EXCEPT !.pc = "thrown"]
    /\ UNCHANGED <<dash, klus, workers, workers_rows, workersError, allWorkers, storeVars,
                   calc, phase_houses, phaseHouses, requests, view>>

\* the photoRecord is inserted; a dbError ends the batch with the exception,
\* otherwise the path is pushed and the loop goes on or the paths are returned;
\* thumbError is a constant of the iteration and ends with it
InsertPhotoRecord(ok) ==
    /\ upload.pc = "insert"
    /\ upload' =
          IF ok
          THEN [upload EXCEPT
                  !.rows = Append(@,
                      [session_id |-> upload.sessionId,
                       storage_path |-> StoragePath(upload.i),
                       thumbnail_path |->
                           RecordThumbnailPath(upload.thumbError,
                                               getThumbnailPath(StoragePath(upload.i)))]),
                  !.storagePaths = Append(@, StoragePath(upload.i)),
                  !.i = @ + 1,
                  !.thumbError = FALSE,
                  !.pc = IF upload.i = upload.photos THEN "returned" ELSE "original"]
          ELSE [upload EXCEPT !.thumbError = FALSE, !.pc = "thrown"]
    /\ UNCHANGED <<dash, klus, workers, workers_rows, workersError, allWorkers, storeVars,
                   calc, phase_houses, phaseHouses, requests, view>>

NextUpload ==
    \/ \E sessionId \in Ids, n \in 0..MaxPhotos : UploadPhotos(sessionId, n)
    \/ \E outcome \in {"ok", "compressThrows", "uploadError"} : UploadOriginal(outcome)
    \/ \E outcome \in {"ok", "uploadError", "generateThrows"} : UploadThumbnail(outcome)
    \/ \E ok \in BOOLEAN : InsertPhotoRecord(ok)

SpecUpload == Init /\ [][NextUpload]_vars

----------------------------------------------------------------------------
(* The job form view: handleSubmit with its photo upload *)

\* a reset that leaves the captured photos where they are
resetFields(form) == [form EXCEPT !.houseNumber = Null, !.tasks = BlankForm]

\* resetForm: house number, the five tasks and the captured photos are
\* cleared; the worker name stays
resetForm(form) ==
    [form EXCEPT !.houseNumber = Null, !.tasks = BlankForm, !.capturedPhotos = <<>>]

\* the user fills in the form and captures photos while no submit is running
FillForm(houseNumber, tasks, photos) ==
    /\ klus.pc = "form"
    /\ klus' = [klus EXCEPT !.houseNumber = houseNumber, !.tasks = tasks,
                            !.capturedPhotos = [i \in 1..photos |-> i]]
    /\ klus' # klus
    /\ UNCHANGED <<dash, upload, workers, workers_rows, workersError, allWorkers, storeVars,
                   calc, phase_houses, phaseHouses, requests, view>>

\* a click on the submit button (canSubmit() and no upload running):
\* handleSubmit returns at once without a house number, else it awaits
\* findOrCreateWorker
SubmitClick ==
    /\ klus.pc = "form"
    /\ canSubmit(klus.tasks)
    /\ ~klus.uploadingPhotos
    /\ klus.houseNumber # Null
    /\ klus' = [klus EXCEPT !.pc = "findOrCreateWorker", !.worker = FALSE,
                            !.result = FALSE, !.uploadCalled = FALSE]
    /\ UNCHANGED <<dash, upload, workers, workers_rows, workersError, allWorkers, storeVars,
                   calc, phase_houses, phaseHouses, requests, view>>

\* findOrCreateWorker has returned: without a worker handleSubmit returns,
\* with one it builds the session and awaits createSession
WorkerFound(ok) ==
    /\ klus.pc = "findOrCreateWorker"
    /\ klus' = [klus EXCEPT !.worker = ok,
                            !.pc = IF ok THEN "createSession" ELSE "form"]
    /\ UNCHANGED <<dash, upload, workers, workers_rows, workersError, allWorkers, storeVars,
                   calc, phase_houses, phaseHouses, requests, view>>

\* createSession has returned: without a result handleSubmit returns; with
\* one and photos it sets uploadingPhotos and awaits uploadPhotos; with one
\* and no photos it shows the success message and resets the form
SessionCreated(ok) ==
    /\ klus.pc = "createSession"
    /\ klus' =
          IF ~ok THEN [klus EXCEPT !.pc = "form"]
          ELSE IF Len(klus.capturedPhotos) > 0
          THEN [klus EXCEPT !.result = TRUE, !.uploadingPhotos = TRUE,
                            !.uploadCalled = TRUE, !.pc = "uploadPhotos"]
          ELSE resetForm([klus EXCEPT !.result = TRUE, !.showSuccess = TRUE,
                                      !.pc = "form"])
    /\ UNCHANGED <<dash, upload, workers, workers_rows, workersError, allWorkers, storeVars,
                   calc, phase_houses, phaseHouses, requests, view>>

\* uploadPhotos has returned or thrown: the exception is caught and logged,
\* finally clears uploadingPhotos, the success message is shown and the form
\* reset
PhotosUploaded(ok) ==
    /\ klus.pc = "uploadPhotos"
    /\ klus' = resetForm([klus EXCEPT !.uploadingPhotos = FALSE, !.showSuccess = TRUE,
                                      !.pc = "form"])
    /\ UNCHANGED <<dash, upload, workers, workers_rows, workersError, allWorkers, storeVars,
                   calc, phase_houses, phaseHouses, requests, view>>

\* the timer set with the success message: it is hidden after three seconds
HideSuccess ==
    /\ klus.showSuccess
    /\ klus' = [klus EXCEPT !.showSuccess = FALSE]
    /\ UNCHANGED <<dash, upload, workers, workers_rows, workersError, allWorkers, storeVars,
                   calc, phase_houses, phaseHouses, requests, view>>

NextSubmit ==
    \/ \E houseNumber \in {Null} \cup {Some(h) : h \in Houses},
          tasks \in KlussenForms, photos \in 0..MaxPhotos :
          FillForm(houseNumber, tasks, photos)
    \/ SubmitClick
    \/ \E ok \in BOOLEAN : WorkerFound(ok)
    \/ \E ok \in BOOLEAN : SessionCreated(ok)
    \/ \E ok \in BOOLEAN : PhotosUploaded(ok)
    \/ HideSuccess

SpecSubmit == Init /\ [][NextSubmit]_vars

----------------------------------------------------------------------------
(* Properties *)

\* the fases asked for
FaseNums == 1..3

\* the houses whose records in the list are all soft-deleted
DeletedHouses(list) ==
    {h \in housesWithSessions(list) :
        \A i \in 1..Len(list) :
            list[i].house_number = h => list[i].deleted_at # Null}

\* C1: a house whose in-memory records all have a non-null deleted_at is in
\* none of sessionsByHouse, housesWithSessions, housesInCompletionOrder and
\* getHousesInFase(k), and after any fetchSessions, createSession,
\* updateSession and deleteSession the in-memory list holds no record with a
\* non-null deleted_at.  Stated for the states in which every called action
\* has returned.
Quiescent == \A slot \in Slots : inflight[slot] = Idle

C1_DeletedInvisible ==
    Quiescent =>
    /\ \A i \in 1..Len(sessions) : sessions[i].deleted_at = Null
    /\ \A h \in DeletedHouses(sessions) :
          /\ h \notin DOMAIN sessionsByHouse(sessions)
          /\ h \notin housesWithSessions(sessions)
          /\ h \notin Range(housesInCompletionOrder(sessions))
          /\ \A k \in FaseNums : h \notin Range(getHousesInFase(sessions, k))

\* the minutes of all five task kinds of one session, a null field being 0
FiveKindMinutes(s) ==
    OrZero(s.binnen_opruimen_min) + OrZero(s.buiten_balkon_min)
        + OrZero(s.zonnescherm_verwijderd_min) + OrZero(s.glasbreuk_min)
        + OrZero(s.diversen_min)

\* C2: stats.totalMinutes and getWorkerStats(w).totalMinutes are the sum, over
\* the contributing records (all records; the records of worker w), of the
\* minutes of all five task kinds, a null minutes field contributing 0.
C2_FiveKindsSummed ==
    /\ calc.op = "stats" =>
          calc.value.totalMinutes
              = SeqSum([i \in 1..Len(sessions) |-> FiveKindMinutes(sessions[i])])
    /\ calc.op = "getWorkerStats" =>
          calc.value.totalMinutes
              = SeqSum([i \in 1..Len(sessions) |->
                           IF sessions[i].worker_id = Some(calc.workerId)
                           THEN FiveKindMinutes(sessions[i]) ELSE 0])

\* the earliest created_at among the records of house h
EarliestCreated(list, h) ==
    LET dates == {DateKey(list[i]) : i \in {j \in 1..Len(list) : list[j].house_number = h}}
    IN CHOOSE d \in dates : \A e \in dates : d <= e

\* C3: housesInCompletionOrder lists every house with a record exactly once,
\* ascending by the earliest created_at of the house, equal earliest
\* timestamps in ascending house number.
C3_OrderWithTieBreak ==
    calc.op = "housesInCompletionOrder" =>
        LET order == calc.value
        IN /\ Range(order) = housesWithSessions(sessions)
           /\ Len(order) = Cardinality(housesWithSessions(sessions))
           /\ \A i, j \in 1..Len(order) :
                 i < j =>
                    \/ EarliestCreated(sessions, order[i]) < EarliestCreated(sessions, order[j])
                    \/ /\ EarliestCreated(sessions, order[i]) = EarliestCreated(sessions, order[j])
                       /\ order[i] < order[j]

\* C4: for every k >= 1, getHousesInFase(k) is the elements of housesInCompletionOrder at the
\* 0-based indices (k-1)*50 up to but excluding k*50, in the same order, and
\* empty when (k-1)*50 is at or beyond the length of the order.
C4_FaseIsSlice ==
    (calc.op = "getHousesInFase" /\ calc.faseNum >= 1) =>
        LET order == housesInCompletionOrder(sessions)
            first == (calc.faseNum - 1) * 50
            rest == Len(order) - first
            n == IF rest <= 0 THEN 0 ELSE IF rest > 50 THEN 50 ELSE rest
        IN /\ Len(calc.value) = n
           /\ \A i \in 1..n : calc.value[i] = order[first + i]
           /\ first >= Len(order) => calc.value = <<>>

\* a second fase of 50 houses out of more than 100, and a fase beyond the houses
C4_Witness ==
    /\ calc.op = "getHousesInFase"
    /\ calc.faseNum = 2
    /\ Len(calc.value) = 50
    /\ Len(housesInCompletionOrder(sessions)) > 100
    /\ getHousesInFase(sessions, 4) = <<>>

RowMinutes(i) == HouseTotalMin(getSessionsForHouse(sessions, faseHouses[i]))

\* C6: the fase report's total hours are the sum, over the houses of the
\* fase, of each house's total minutes converted to hours and rounded to one
\* decimal house by house (not the rounding of the summed minutes); two
\* houses of 3 minutes each give 0.1 + 0.1 = 0.2.  Hours in tenths.
C6_RoundThenSum ==
    LET rows == faseHousesData
        minutes == [i \in 1..Len(faseHouses) |-> RowMinutes(i)]
    IN /\ faseTotalHours
             = SeqSum([i \in 1..Len(minutes) |-> ToFixedTenths(minutes[i])])
       /\ \A i \in 1..Len(minutes) :
             /\ rows[i].totalHours = ToFixedTenths(minutes[i])
             /\ 6 * rows[i].totalHours - minutes[i] <= 3
             /\ minutes[i] - 6 * rows[i].totalHours <= 3
       /\ (Len(minutes) = 2 /\ minutes[1] = 3 /\ minutes[2] = 3)
             => faseTotalHours = 2

\* a built report of two houses of 3 minutes each: 0.2, where the summed
\* minutes round to 0.1
C6_Witness ==
    /\ view.pc = "done"
    /\ Len(faseHouses) = 2
    /\ RowMinutes(1) = 3
    /\ RowMinutes(2) = 3
    /\ faseTotalHours = 2
    /\ faseTotalHoursOfSum = 1

\* the houses table phase_houses gives the fase of the report, once loaded
FaseMembers ==
    IF requests["fetchPhaseHouses"] = "ok"
    THEN {r.house_number : r \in {q \in phase_houses : q.phase_number = faseNum}}
    ELSE {}

\* the row of a house without work
ZeroRow(h) ==
    [ number |-> h, totalHours |-> 0, binnenHours |-> Null, balkonHours |-> Null,
      zonnescherm |-> FALSE, glasbreukHours |-> Null, diversenHours |-> Null,
      workers |-> <<>>,
      remarks |-> [binnen |-> Null, balkon |-> Null, zonnescherm |-> Null,
                   glasbreuk |-> Null, diversen |-> Null],
      hasRemarks |-> FALSE ]

\* house h has no record that is not deleted
NoWork(h) ==
    ~\E r \in job_sessions : r.house_number = h /\ r.deleted_at = Null

C8_ReportDespitePhotoFailure ==
    requests["fetchPhotosForHouses"] = "failed" =>
        /\ view.loading = FALSE
        /\ \A i \in 1..Len(faseHouses) :
              /\ faseHouses[i] \in DOMAIN view.photosByHouse
              /\ view.photosByHouse[faseHouses[i]] = <<>>

\* the phases asked for: the project phases and one beyond
PhaseNums == 1..PhaseCount \cup {99}

C11_FirstPhaseKept ==
    /\ [](\A r, q \in phase_houses : r.house_number = q.house_number => r = q)
    /\ [](\A r \in phase_houses : PhaseCheck(r))
    /\ [][\A r \in phase_houses : r \in phase_houses']_vars
    /\ [][(\A i \in 1..Len(calc'.rows) : PhaseCheck(calc'.rows[i]))
            => /\ calc'.error = Null
               /\ \A i \in 1..Len(calc'.rows) :
                     \E r \in phase_houses' : r.house_number = calc'.rows[i].house_number]_vars

\* house 290 is in phase 1; a statement listing it under phase 2 has run
\* without error and has inserted its other row
C11_Witness ==
    /\ calc.op = "insertPhaseHouses"
    /\ calc.error = Null
    /\ \E i \in 1..Len(calc.rows) :
          calc.rows[i] = [phase_number |-> 2, house_number |-> 290]
    /\ [phase_number |-> 1, house_number |-> 290] \in phase_houses
    /\ [phase_number |-> 2, house_number |-> 288] \in phase_houses

\* C12: deleteSession(id) never removes a record from the Record Store: on
\* success the stored record is still there, with deleted_at set to a
\* timestamp and every other field as it was, and the record leaves only the
\* in-memory list.
C12_SoftDeleteKeepsRow ==
    [][/\ \A r \in job_sessions : \E q \in job_sessions' : q.id = r.id
       /\ \A slot \in Slots :
             (inflight[slot] = Idle /\ inflight'[slot] # Idle
                 /\ inflight'[slot].op = "deleteSession" /\ inflight'[slot].ok)
             => \A r \in job_sessions :
                   IF r.id = inflight'[slot].id
                   THEN \E q \in job_sessions' :
                           /\ q.deleted_at # Null
                           /\ q = Merge(r, [deleted_at |-> q.deleted_at])
                   ELSE r \in job_sessions'
       /\ \A slot \in Slots :
             (inflight[slot] # Idle /\ inflight[slot].op = "deleteSession"
                 /\ inflight'[slot] = Idle)
             => /\ job_sessions' = job_sessions
                /\ inflight[slot].ok =>
                      /\ \A i \in 1..Len(sessions') : sessions'[i].id # inflight[slot].id
                      /\ sessions' = SelectSeq(sessions, LAMBDA s : s.id # inflight[slot].id)
      ]_vars

\* a deleteSession has returned without error: its record is stored with
\* deleted_at set and is not in the list
C12_Witness ==
    /\ Quiescent
    /\ error = Null
    /\ \E r \in job_sessions :
          /\ r.deleted_at # Null
          /\ \A i \in 1..Len(sessions) : sessions[i].id # r.id
    /\ Cardinality(job_sessions) = 2
    /\ Len(sessions) = 1

\* C13: totalHours of stats and of getWorkerStats(w) is totalMinutes / 60
\* rounded half-up to one decimal: in tenths, the integer t with
\* 6t <= totalMinutes + 3 < 6t + 6 (120 minutes -> 2.0, 100 minutes -> 1.7).
C13_HoursHalfUp ==
    calc.op \in {"stats", "getWorkerStats"} =>
        LET m == calc.value.totalMinutes
            t == calc.value.totalHours
        IN /\ 6 * t <= m + 3
           /\ m + 3 < 6 * t + 6
           /\ m = 120 => t = 20
           /\ m = 100 => t = 17

\* 99 minutes of a worker are 1.65 hours, given as 1.7
C13_Witness ==
    /\ calc.op = "getWorkerStats"
    /\ calc.value.totalMinutes = 99
    /\ calc.value.totalHours = 17
    /\ stats(sessions).totalHours = 17

\* C14: getWorkerStats(w) counts only the records whose worker_id is w: its
\* sessions is their number, its houses the number of their distinct houses,
\* its totalMinutes the minutes of these records alone; records of another
\* worker or of no worker add to none of the three.
C14_OnlyOwnRecords ==
    calc.op = "getWorkerStats" =>
        LET own == {i \in 1..Len(sessions) : sessions[i].worker_id = Some(calc.workerId)}
            others == SelectSeq(sessions, LAMBDA s : s.worker_id # Some(calc.workerId))
            ownList == SelectSeq(sessions, LAMBDA s : s.worker_id = Some(calc.workerId))
        IN /\ calc.value.sessions = Cardinality(own)
           /\ calc.value.houses = Cardinality({sessions[i].house_number : i \in own})
           /\ calc.value.totalMinutes = stats(ownList).totalMinutes
           /\ calc.value.sessions + Len(others) = Len(sessions)

\* worker-1 has one session; a session of worker-2 in another house and its
\* minutes are left out of the stats of worker-1
C14_Witness ==
    /\ calc.op = "getWorkerStats"
    /\ calc.workerId = "worker-1"
    /\ Len(sessions) = 2
    /\ \E i \in 1..2 : /\ sessions[i].worker_id = Some("worker-2")
                       /\ SessionMinutes(sessions[i]) > 0
                       /\ sessions[i].house_number # sessions[3 - i].house_number
    /\ calc.value.sessions = 1
    /\ calc.value.houses = 1
    /\ calc.value.totalMinutes < stats(sessions).totalMinutes

\* the fields of a session that record a task of one kind: its minutes and
\* its structured fields
KindFields ==
    [ binnen |-> {"binnen_opruimen_min"},
      balkon |-> {"buiten_balkon_min"},
      zonnescherm |-> {"zonnescherm_verwijderd_min", "zonnescherm_terugplaatsen"},
      glasbreuk |-> {"glasbreuk_min", "glasbreuk_aantal"},
      diversen |-> {"diversen_min"} ]

\* the report row marks the kind as performed
Performed(row, kind) ==
    CASE kind = "binnen" -> row.binnenHours # Null
      [] kind = "balkon" -> row.balkonHours # Null
      [] kind = "zonnescherm" -> row.zonnescherm
      [] kind = "glasbreuk" -> row.glasbreukHours # Null
      [] kind = "diversen" -> row.diversenHours # Null

\* C15: in the fase report a task kind is marked performed for a house if and
\* only if one of the house's records has a field of that kind non-null, so
\* explicitly entered 0 minutes mark the kind as performed.
C15_PerformedIffEntered ==
    view.pc = "done" =>
        \A i \in 1..Len(faseHousesData) : \A kind \in DOMAIN KindFields :
            LET houseSessions == getSessionsForHouse(sessions, faseHousesData[i].number)
            IN Performed(faseHousesData[i], kind)
                 <=> \E k \in 1..Len(houseSessions) : \E f \in KindFields[kind] :
                        houseSessions[k][f] # Null

\* C16: the built fase report renders at most 6 photos for any house, and
\* the number of images the view waits for before printing is enabled is the
\* number of images it renders.
C16_SixPhotosPerHouse ==
    view.pc = "done" =>
        /\ \A h \in DOMAIN view.photosByHouse : Len(view.photosByHouse[h]) <= 6
        /\ view.totalImages = ImageCount

\* C17: every failed Record Store call of a store action is surfaced: when
\* the action ends after a failed call, the store's error is set (the actions
\* that return the record return null with it).  Stated for the actions of
\* the sessions store as they return.
C17_FailureSurfaced ==
    [][\A slot \in Slots :
          (inflight[slot] # Idle /\ inflight'[slot] = Idle /\ ~inflight[slot].ok)
              => error' # Null]_vars

\* C18: updateSession and deleteSession called with an id that is no stored
\* record's id fail: the call changes no row, and when the action ends the
\* store's error is set and neither the rows nor the list have changed.
C18_NotFoundFails ==
    [][\A slot \in Slots :
          /\ ( /\ inflight[slot] = Idle
               /\ inflight'[slot].op \in {"updateSession", "deleteSession"}
               /\ ~\E r \in job_sessions : r.id = inflight'[slot].id )
                => job_sessions' = job_sessions
          /\ ( /\ inflight[slot].op \in {"updateSession", "deleteSession"}
               /\ inflight'[slot] = Idle
               /\ ~\E r \in job_sessions : r.id = inflight[slot].id )
                => /\ error' # Null
                   /\ sessions' = sessions
                   /\ job_sessions' = job_sessions]_vars

\* C19: a fase number below 1 given to getHousesInFase is rejected and never
\* yields houses: whatever the sessions are, no house is returned for it.
C19_FaseBelowOneRejected ==
    (calc.op = "getHousesInFase" /\ calc.faseNum < 1) => Len(calc.value) = 0

\* C20: after any sequence of job submissions and session edits, every
\* minutes field of every stored record is null or a non-negative integer.
C20_MinutesNonNegative ==
    \A r \in job_sessions : \A f \in MinuteFields :
        r[f] = Null \/ r[f][1] \in Nat

\* C23: when a fetchSessions and a createSession overlap, then once both
\* have ended the list holds the created record exactly once and no id
\* twice.  Stated for the states where no action is in flight and no record
\* has been deleted: every stored record is then a created one.
C23_CreatedOnceAfterOverlap ==
    (Quiescent /\ \A r \in job_sessions : r.deleted_at = Null) =>
        /\ \A r \in job_sessions :
              Cardinality({i \in 1..Len(sessions) : sessions[i].id = r.id}) = 1
        /\ \A i, j \in 1..Len(sessions) : sessions[i].id = sessions[j].id => i = j

\* the actions that write records
WriteOps == {"createSession", "updateSession", "deleteSession"}

\* C24: a createSession, updateSession or deleteSession whose Record Store
\* call fails leaves the list as it was, sets error to a message, returns
\* null where it returns a record, and ends with loading false.
C24_FailedWriteKeepsList ==
    [][\A slot \in Slots :
          (inflight[slot].op \in WriteOps /\ ~inflight[slot].ok /\ inflight'[slot] = Idle)
              => /\ sessions' = sessions
                 /\ job_sessions' = job_sessions
                 /\ error' # Null
                 /\ loading' = FALSE
                 /\ inflight[slot].op # "deleteSession" => Returned(inflight[slot]) = Null]_vars

\* a deletion has failed: the record is still listed and stored undeleted
C24_Witness ==
    /\ Quiescent
    /\ error = Some("Fout bij verwijderen")
    /\ loading = FALSE
    /\ Len(sessions) = 1
    /\ \E r \in job_sessions : r.id = sessions[1].id /\ r.deleted_at = Null

\* C25: loading is true whenever one of fetchSessions, createSession,
\* updateSession and deleteSession is in flight, also when two overlap, and
\* false when none is.
C25_LoadingWhileInFlight ==
    loading <=> \E slot \in Slots : inflight[slot] # Idle

\* the sequences of a sequence, one after the other
RECURSIVE Flatten(_)
Flatten(seqs) ==
    IF seqs = <<>> THEN <<>> ELSE Flatten(SubSeq(seqs, 1, Len(seqs) - 1)) \o seqs[Len(seqs)]

\* C26: the fases 1..totalFases partition housesInCompletionOrder: they are
\* pairwise disjoint, one after the other they are the order, every fase but
\* the last holds exactly 50 houses, every house with a session is in exactly
\* one fase, and the fases above totalFases are empty.
C26_FasesPartitionOrder ==
    calc.op = "totalFases" =>
        LET n == calc.value
            order == housesInCompletionOrder(sessions)
            slices == [k \in 1..(n + 2) |-> getHousesInFase(sessions, k)]
            fase == IF slices \in Seq(Seq(Nat)) THEN slices ELSE <<>>
        IN /\ Len(fase) = n + 2
           /\ \A k, l \in 1..n : k < l => Range(fase[k]) \cap Range(fase[l]) = {}
           /\ Flatten(SubSeq(fase, 1, n)) = order
           /\ \A k \in 1..(n - 1) : Len(fase[k]) = 50
           /\ \A h \in housesWithSessions(sessions) :
                 Cardinality({<<k, i>> \in (1..n) \X (1..50) :
                                 i <= Len(fase[k]) /\ fase[k][i] = h}) = 1
           /\ fase[n + 1] = <<>> /\ fase[n + 2] = <<>>

\* 101 houses in three fases of 50, 50 and 1
C26_Witness ==
    /\ calc.op = "totalFases"
    /\ calc.value = 3
    /\ Len(getHousesInFase(sessions, 2)) = 50
    /\ Len(getHousesInFase(sessions, 3)) = 1
    /\ Cardinality(housesWithSessions(sessions)) = 101

\* the name without the spaces before its first and after its last other
\* character
Stripped(name) ==
    LET filled == {i \in 1..Len(name) : name[i] # " "}
    IN IF filled = {} THEN <<>>
       ELSE SubSeq(name, CHOOSE i \in filled : \A j \in filled : i <= j,
                         CHOOSE i \in filled : \A j \in filled : j <= i)

\* the two names are equal when the case of the letters is ignored
SameIgnoringCase(a, b) ==
    /\ Len(a) = Len(b)
    /\ \A i \in 1..Len(a) : a[i] = b[i] \/ {a[i], b[i]} = {"j", "J"}

\* C21: findOrCreateWorker(name) returns null and creates nothing when name
\* is empty or only spaces; when an active worker's name equals the trimmed
\* name ignoring case it returns such a worker and issues no insert; only
\* otherwise it calls addWorker, with the trimmed name.
C21_FindOrCreate ==
    [][calc'.op = "findOrCreateWorker" =>
          LET name == calc'.name
              blank == \A i \in 1..Len(name) : name[i] = " "
              matches == {i \in 1..Len(workers) :
                             SameIgnoringCase(workers[i].name, Stripped(name))}
          IN /\ blank =>
                   /\ calc'.value = Null /\ calc'.insert = Null
                   /\ UNCHANGED <<workers, workers_rows>>
             /\ (~blank /\ matches # {}) =>
                   /\ calc'.insert = Null
                   /\ \E i \in matches : calc'.value = Some(workers[i])
                   /\ UNCHANGED <<workers, workers_rows>>
             /\ (~blank /\ matches = {}) =>
                   /\ calc'.insert = Some(Stripped(name))
                   /\ \A w \in workers_rows' \ workers_rows :
                         w.name = Stripped(name) /\ calc'.value = Some(w)]_vars

\* " J" was asked for and the active worker "j" returned, nothing inserted
C21_Witness ==
    /\ calc.op = "findOrCreateWorker"
    /\ calc.name = <<" ", "J">>
    /\ calc.insert = Null
    /\ calc.value # Null
    /\ calc.value[1].name = <<"j">>
    /\ \E i \in 1..Len(workers) : workers[i] = calc.value[1]

\* C30: after the initial fetchWorkers and fetchAllWorkers and any sequence
\* of addWorker, updateWorker and removeWorker, every worker of the active
\* list workers is in allWorkers with the same name.
C30_ActiveWorkersResolvable ==
    \A i \in 1..Len(workers) :
        \E j \in 1..Len(allWorkers) :
            allWorkers[j].id = workers[i].id /\ allWorkers[j].name = workers[i].name

\* C22: the backup function answers 401, reads no table, uploads no archive
\* and sends no email unless the x-backup-secret header equals the value of
\* BACKUP_SECRET, also when BACKUP_SECRET is not configured.
C22_BackupNeedsSecret ==
    (calc.op = "backup" /\ (calc.expectedSecret = Null \/ calc.secret # calc.expectedSecret))
        => /\ calc.status = 401
           /\ calc.tables = <<>>
           /\ ~calc.uploaded
           /\ ~calc.emailed

\* C27: in the dashboard's house detail, whenever a house is selected and no
\* photo fetch is awaited, housePhotos holds what was fetched for the selected
\* house (or [] when that fetch threw): a late response for a house selected
\* before never replaces the photos of the newer selection
C27_PhotosOfSelectedHouse ==
    (dash.selectedHouse # Null /\ dash.pending = <<>>)
        => dash.housePhotos \in {fetchPhotosForHouse(dash.selectedHouse[1]), <<>>}

\* C28: in uploadPhotos a photo's row is inserted only after its original was
\* uploaded, the row's thumbnail_path is non-null only if the thumbnail was
\* uploaded, and a failed thumbnail upload does not fail the photo (the insert
\* follows); the first photo whose original upload or insert fails ends the
\* batch with the exception: nothing of a later photo is uploaded, nothing
\* happens after it, and every earlier photo keeps its row
C28_UploadPhotosOrder ==
    /\ [](/\ \A k \in 1..Len(upload.rows) :
                /\ upload.rows[k].session_id = upload.sessionId
                /\ upload.rows[k].storage_path \in upload.storage
                /\ upload.rows[k].thumbnail_path # Null
                      => upload.rows[k].thumbnail_path[1] \in upload.storage
          /\ \A path \in upload.storage : path.photo <= upload.i
          /\ Len(upload.rows) = upload.i - 1
          /\ \A k \in 1..Len(upload.rows) : upload.rows[k].storage_path = StoragePath(k))
    /\ [][/\ (upload.pc = "thumbnail" /\ upload'.thumbError) => upload'.pc = "insert"
          /\ upload.pc = "thrown" => upload' = upload]_vars

\* a batch of three: the first photo is stored without its thumbnail, the
\* second photo fails, the third is never uploaded
C28_Witness ==
    /\ upload.pc = "thrown"
    /\ upload.photos = 3
    /\ upload.i = 2
    /\ Len(upload.rows) = 1
    /\ upload.rows[1].thumbnail_path = Null
    /\ StoragePath(2) \in upload.storage

\* C29: a handleSubmit whose createSession succeeded ends with the success
\* message shown, the house number, the tasks and the captured photos reset
\* and uploadingPhotos false, whether uploadPhotos returned or threw; one whose
\* findOrCreateWorker or createSession failed ends without having called
\* uploadPhotos and with the form and the captured photos as they were; while
\* the handler runs the form is not touched, and uploadPhotos is awaited only
\* after a successful createSession
C29_SubmitOutcome ==
    [][/\ (klus.pc # "form" /\ klus'.pc = "form") =>
             IF klus'.result
             THEN /\ klus'.showSuccess
                  /\ klus'.houseNumber = Null
                  /\ klus'.tasks = BlankForm
                  /\ klus'.capturedPhotos = <<>>
                  /\ ~klus'.uploadingPhotos
             ELSE /\ ~klus'.uploadCalled
                  /\ ~klus'.uploadingPhotos
                  /\ klus'.houseNumber = klus.houseNumber
                  /\ klus'.tasks = klus.tasks
                  /\ klus'.capturedPhotos = klus.capturedPhotos
       /\ (klus.pc # "form" /\ klus'.pc # "form") =>
             /\ klus'.houseNumber = klus.houseNumber
             /\ klus'.tasks = klus.tasks
             /\ klus'.capturedPhotos = klus.capturedPhotos
       /\ (klus.pc # "uploadPhotos" /\ klus'.pc = "uploadPhotos") =>
             (klus.pc = "createSession" /\ klus'.result /\ klus'.uploadCalled)
       /\ (klus.pc = "createSession" /\ klus'.result) =>
             klus'.pc = (IF klus.capturedPhotos = <<>> THEN "form" ELSE "uploadPhotos")]_vars

\* a session with photos was saved, the upload is over: the message is shown
\* and the form is blank
C29_Witness ==
    /\ klus.pc = "form"
    /\ klus.result
    /\ klus.uploadCalled
    /\ klus.showSuccess
    /\ klus.capturedPhotos = <<>>
    /\ klus.houseNumber = Null

====
